---- MODULE Spec2Model ----
(***************************************************************************)
(* Model of datapath/datapath.c of the OpenFlow reference kernel switch:   *)
(* the registry of datapaths (dps[]), the lifecycle of datapaths and of    *)
(* their ports, the data-plane receive path that runs inside RCU read      *)
(* sections, the per-datapath maintenance thread, and the Generic Netlink  *)
(* handlers that drive them.                                               *)
(***************************************************************************)
EXTENDS Integers, Sequences, FiniteSets, TLC

\* ------------------------------------------------------------------------
\* Bounds of the model
\* ------------------------------------------------------------------------
\* Number of datapath indexes that are modelled (DP_MAX in the source).
MaxDp == 1
\* Number of slots of dp->ports[] that are modelled (DP_MAX_PORTS in the
\* source); slot 0 is never handed out by find_portno.
MaxPorts == 3
\* Number of host Ethernet interfaces that can be attached as ports.
NumEth == 2
\* dev->mtu of every device.
Mtu == 1500
\* Number of tables of the chain (dp->chain->n_tables), number of flows in
\* them, and size of the body of a STATS_REPLY, in records.
NumTables == 2
MaxFlows == 3
MaxBuf == 3
\* Number of STATS_REPLY messages after which a dump is no longer followed.
MaxFrags == 5
\* Ticks per second of the kernel's clock (HZ, fixed when the kernel is
\* built), and the largest age of a flow in ticks.
HZ == 4
MaxTicks == 24
\* Number of concurrent data-plane receive contexts (softirq readers).
NumReaders == 1
\* Number of OpenFlow requests one sender submits, and the range of the
\* transaction ids (xid) it may put in their headers.
MaxReq == 3
MaxXid == 2

\* ------------------------------------------------------------------------
\* Program constants
\* ------------------------------------------------------------------------
OFPP_LOCAL == 65534
EINVAL == 22
ENODEV == 19
EEXIST == 17
ENOMEM == 12
EBUSY == 16
ENOENT == 2
EXFULL == 54
OFPP_IN_PORT == 65528
OFPP_TABLE == 65529
OFPP_FLOOD == 65531
OFPP_ALL == 65532
OFPP_CONTROLLER == 65533
OFPP_NONE == 65535
UINT16_MAX == 65535
ETH_HLEN == 14
VLAN_HLEN == 4
E2BIG == 7
ESRCH == 3

NULL == 0
\* Owners of a lock: nobody, the Generic Netlink handler, or (a datapath
\* index) the maintenance thread of that datapath.
FREE == -1
GENL == -2
\* An ERR_PTR() value stored where a pointer is expected.
ERRPTR == -1

DpIdx == 0 .. (MaxDp - 1)
Slots == 1 .. (MaxPorts - 1)
EthDevs == 1 .. NumEth
\* The net_device that dp_dev_setup creates for datapath i ("of<i>").
LocalDev(i) == NumEth + 1 + i
LocalDevs == {LocalDev(i) : i \in DpIdx}
Devs == EthDevs \cup LocalDevs
Readers == 1 .. NumReaders

\* A Netlink attribute that the message does not carry.
ABSENT == << >>
\* A u32 attribute value, as its high and low 16-bit halves.
U32(hi, lo) == << hi, lo >>
\* The DP_IDX attributes tried: absent, every datapath index, DP_MAX (just
\* out of range) and the largest u32.
IdxAttrs ==
    {ABSENT} \cup {U32(0, i) : i \in 0 .. MaxDp} \cup {U32(65535, 65535)}
\* nla_get_u32() stored into an int: a u32 above INT_MAX wraps negative.
nla_get_u32(v) ==
    IF v[1] >= 32768 THEN (v[1] - 65536) * 65536 + v[2]
    ELSE v[1] * 65536 + v[2]

VARIABLES
    dps,        \* dps[i]: TRUE iff the registry slot i points at the datapath
    dpMem,      \* memory of struct datapath i: "none", "alloc" or "freed"
    chain,      \* dp->chain: "none", "live" or "destroyed"
    netdev,     \* dp->netdev: "none", "registered" or "destroyed"
    local_port, \* dp->local_port: NULL, a port (its device) or ERRPTR
    ports,      \* dp->ports[]: slot -> port (its device) or NULL
    port_list,  \* dp->port_list, head first
    nbp,        \* struct net_bridge_port of each device
    br_port,    \* dev->br_port of each device
    promisc,    \* promiscuity count of each device
    refcnt,     \* reference count of each device
    modrefs,    \* references taken on THIS_MODULE
    dp_mutex,   \* owner of dp_mutex
    rtnl,       \* owner of the RTNL lock
    genl,       \* the Generic Netlink handler in progress
    task,       \* the maintenance thread of each datapath
    rd,         \* the data-plane readers
    rcuWait,    \* readers a pending synchronize_rcu() still waits for
    ofp,        \* the OpenFlow requests of one sender and their effects
    fwd,        \* a frame on the forwarding output path and what became of it
    cb          \* a statistics dump: struct netlink_callback and its replies

vars == << dps, dpMem, chain, netdev, local_port, ports, port_list, nbp,
           br_port, promisc, refcnt, modrefs, dp_mutex, rtnl, genl, task,
           rd, rcuWait, ofp, fwd,
          cb >>

dpVars == << dps, dpMem, chain, netdev, local_port, modrefs >>
portVars == << ports, port_list, nbp, br_port, promisc, refcnt >>
lockVars == << dp_mutex, rtnl >>

\* ------------------------------------------------------------------------
\* Initial state: the module is loaded, no datapath exists (dp_init).
\* ------------------------------------------------------------------------
NoPort == [mem |-> "none", dp |-> -1, port_no |-> 0, config |-> {},
           addSent |-> FALSE, delSent |-> FALSE]

\* History kept for ADD_PORT followed by DEL_PORT of the same interface:
\* none, or what the datapath looked like when the ADD_PORT arrived.
NoPre == << >>

IdleGenl == [cmd |-> "idle", pc |-> "idle", dp |-> -1, dev |-> NULL,
             p |-> NULL, port_no |-> 0, err |-> 0, ret |-> "idle",
             sret |-> "idle", attr |-> ABSENT, named |-> FALSE,
             pre |-> NoPre, rcu |-> FALSE]

NoTask == [pc |-> "none", sig |-> FALSE, should_stop |-> FALSE,
           state |-> "running"]

IdleReader == [pc |-> "idle", dev |-> NULL, p |-> NULL, dp |-> -1,
               out |-> 0, p2 |-> NULL, pin |-> NULL,
               seenAdd |-> FALSE, seenDel |-> FALSE]

\* q: the requests in arrival order; n: how many of them have been handed
\* to dp_genl_openflow; xid: sender.xid; settled: the requests whose
\* handling is finished (applied by the chain, or rejected); chained: the
\* requests handed to the chain, in that order; out: the messages sent
\* back to the sender.
\* opm: the last OFPT_PORT_MOD given to dp_update_port_flags (none at
\* first), ret: what it returned, was: the ports before it, step: where a
\* port-mod that is followed store by store stands.
NoOpm == << >>

NoOfp == [q |-> << >>, n |-> 0, xid |-> 0, settled |-> {},
          chained |-> << >>, out |-> << >>, opm |-> NoOpm, ret |-> 0,
          was |-> << >>, step |-> "idle"]

\* No frame is on the forwarding output path.
NoFwd == [pc |-> "idle"]

\* No statistics dump has been started.
NoCb == [pc |-> "idle"]

Init ==
    /\ ofp = NoOfp
    /\ fwd = NoFwd
    /\ cb = NoCb
    /\ dps = [i \in DpIdx |-> FALSE]
    /\ dpMem = [i \in DpIdx |-> "none"]
    /\ chain = [i \in DpIdx |-> "none"]
    /\ netdev = [i \in DpIdx |-> "none"]
    /\ local_port = [i \in DpIdx |-> NULL]
    /\ ports = [i \in DpIdx |-> [s \in Slots |-> NULL]]
    /\ port_list = [i \in DpIdx |-> << >>]
    /\ nbp = [d \in Devs |-> NoPort]
    /\ br_port = [d \in Devs |-> NULL]
    /\ promisc = [d \in Devs |-> 0]
    /\ refcnt = [d \in Devs |-> 0]
    /\ modrefs = 0
    /\ dp_mutex = FREE
    /\ rtnl = FREE
    /\ genl = IdleGenl
    /\ task = [i \in DpIdx |-> NoTask]
    /\ rd = [r \in Readers |-> IdleReader]
    /\ rcuWait = {}

\* ------------------------------------------------------------------------
\* Helpers
\* ------------------------------------------------------------------------
Goto(l) == genl' = [genl EXCEPT !.pc = l]

\* A handler leaves with result e; the result stays visible until the next
\* command is accepted.
Return(e) == genl' = [IdleGenl EXCEPT !.cmd = genl.cmd, !.dp = genl.dp,
                                      !.pc = "return", !.err = e,
                                      !.attr = genl.attr,
                                      !.named = genl.named,
                                      !.pre = genl.pre]

RECURSIVE Remove(_, _)
Remove(s, x) ==
    IF s = << >> THEN << >>
    ELSE IF Head(s) = x THEN Remove(Tail(s), x)
    ELSE << Head(s) >> \o Remove(Tail(s), x)

InList(s, x) == \E k \in 1 .. Len(s) : s[k] = x

\* Readers that are inside an RCU read-side critical section.
InSection(r) == rd[r].pc # "idle"

\* ------------------------------------------------------------------------
\* gen_dp_idx: the first free datapath index, or -1.
\* ------------------------------------------------------------------------
gen_dp_idx ==
    IF \E i \in DpIdx : ~dps[i]
    THEN CHOOSE i \in DpIdx : ~dps[i] /\ \A j \in DpIdx : j < i => dps[j]
    ELSE -1

\* ------------------------------------------------------------------------
\* find_portno: the first free slot >= 1 of dp->ports[], or -EXFULL.
\* ------------------------------------------------------------------------
find_portno(dp) ==
    IF \E s \in Slots : ports[dp][s] = NULL
    THEN CHOOSE s \in Slots : /\ ports[dp][s] = NULL
                              /\ \A t \in Slots : t < s => ports[dp][t] # NULL
    ELSE -EXFULL

\* ------------------------------------------------------------------------
\* dp_genl_add: the ADD_DP command.  attr is the DP_IDX attribute, named
\* tells whether a DP_NAME attribute was supplied.
\* ------------------------------------------------------------------------
dp_genl_add(attr, named) ==
    /\ genl.pc \in {"idle", "return"}
    /\ LET dp_idx == IF attr = ABSENT THEN -1 ELSE nla_get_u32(attr) IN
         IF dp_idx = -1 /\ ~named
         THEN genl' = [IdleGenl EXCEPT !.cmd = "add_dp", !.pc = "return",
                                       !.err = -EINVAL, !.attr = attr,
                                       !.named = named]
         ELSE genl' = [IdleGenl EXCEPT !.cmd = "add_dp",
                                       !.pc = "new_dp_rtnl", !.dp = dp_idx,
                                       !.attr = attr, !.named = named]
    /\ UNCHANGED << cb, dpVars, portVars, lockVars, task, rd, rcuWait, ofp, fwd >>

\* new_dp: rtnl_lock()
new_dp_rtnl ==
    /\ genl.pc = "new_dp_rtnl"
    /\ rtnl = FREE
    /\ rtnl' = GENL
    /\ Goto("new_dp_mutex")
    /\ UNCHANGED << cb, dpVars, portVars, dp_mutex, task, rd, rcuWait, ofp, fwd >>

\* new_dp: mutex_lock(&dp_mutex)
new_dp_mutex ==
    /\ genl.pc = "new_dp_mutex"
    /\ dp_mutex = FREE
    /\ dp_mutex' = GENL
    /\ Goto("new_dp_idx")
    /\ UNCHANGED << cb, dpVars, portVars, rtnl, task, rd, rcuWait, ofp, fwd >>

\* new_dp: choose the index and check its range.
new_dp_idx ==
    /\ genl.pc = "new_dp_idx"
    /\ LET i == IF genl.dp = -1 THEN gen_dp_idx ELSE genl.dp IN
         IF i < 0 \/ i >= MaxDp
         THEN genl' = [genl EXCEPT !.dp = i, !.err = -EINVAL,
                                   !.pc = "err_unlock"]
         ELSE genl' = [genl EXCEPT !.dp = i, !.pc = "new_dp_modget"]
    /\ UNCHANGED << cb, dpVars, portVars, lockVars, task, rd, rcuWait, ofp, fwd >>

\* new_dp: try_module_get(THIS_MODULE), which fails while the module is
\* being unloaded.
new_dp_modget ==
    /\ genl.pc = "new_dp_modget"
    /\ \/ /\ modrefs' = modrefs + 1
          /\ Goto("new_dp_exists")
       \/ /\ genl' = [genl EXCEPT !.err = -ENODEV, !.pc = "err_unlock"]
          /\ UNCHANGED modrefs
    /\ UNCHANGED << cb, dps, dpMem, chain, netdev, local_port, portVars,
                    lockVars, task, rd, rcuWait, ofp, fwd >>

\* new_dp: exit early if a datapath with that number already exists.
new_dp_exists ==
    /\ genl.pc = "new_dp_exists"
    /\ IF dps[genl.dp]
       THEN genl' = [genl EXCEPT !.err = -EEXIST, !.pc = "err_put"]
       ELSE Goto("new_dp_alloc")
    /\ UNCHANGED << cb, dpVars, portVars, lockVars, task, rd, rcuWait, ofp, fwd >>

\* new_dp: dp = kzalloc(...), which may fail.
new_dp_alloc ==
    /\ genl.pc = "new_dp_alloc"
    /\ \/ /\ dpMem' = [dpMem EXCEPT ![genl.dp] = "alloc"]
          /\ chain' = [chain EXCEPT ![genl.dp] = "none"]
          /\ netdev' = [netdev EXCEPT ![genl.dp] = "none"]
          /\ local_port' = [local_port EXCEPT ![genl.dp] = NULL]
          /\ ports' = [ports EXCEPT ![genl.dp] = [s \in Slots |-> NULL]]
          /\ port_list' = [port_list EXCEPT ![genl.dp] = << >>]
          /\ task' = [task EXCEPT ![genl.dp] = NoTask]
          /\ genl' = [genl EXCEPT !.err = -ENOMEM, !.pc = "new_dp_dev_setup"]
       \/ /\ genl' = [genl EXCEPT !.err = -ENOMEM, !.pc = "err_put"]
          /\ UNCHANGED << cb, dpMem, chain, netdev, local_port, ports,
                          port_list, task >>
    /\ UNCHANGED << cb, dps, modrefs, nbp, br_port, promisc, refcnt, lockVars,
                    rd, rcuWait, ofp, fwd >>

\* new_dp: err = dp_dev_setup(dp, dp_name); on success the local interface
\* "of<idx>" exists, a new net_device with no port, no promiscuity and no
\* reference held by this file.
new_dp_dev_setup ==
    /\ genl.pc = "new_dp_dev_setup"
    /\ \/ /\ netdev' = [netdev EXCEPT ![genl.dp] = "registered"]
          /\ br_port' = [br_port EXCEPT ![LocalDev(genl.dp)] = NULL]
          /\ promisc' = [promisc EXCEPT ![LocalDev(genl.dp)] = 0]
          /\ refcnt' = [refcnt EXCEPT ![LocalDev(genl.dp)] = 0]
          /\ nbp' = [nbp EXCEPT ![LocalDev(genl.dp)] = NoPort]
          /\ genl' = [genl EXCEPT !.err = 0, !.pc = "new_dp_chain"]
       \/ /\ genl' = [genl EXCEPT !.err = -ENOMEM, !.pc = "err_free_dp"]
          /\ UNCHANGED << cb, netdev, br_port, promisc, refcnt, nbp >>
    /\ UNCHANGED << cb, dps, dpMem, chain, local_port, modrefs, ports,
                    port_list, lockVars, task, rd, rcuWait, ofp, fwd >>

\* new_dp: dp->chain = chain_create(dp); err is not set when it fails.
new_dp_chain ==
    /\ genl.pc = "new_dp_chain"
    /\ \/ /\ chain' = [chain EXCEPT ![genl.dp] = "live"]
          /\ port_list' = [port_list EXCEPT ![genl.dp] = << >>]
          /\ genl' = [genl EXCEPT !.pc = "nbp_check",
                                  !.dev = LocalDev(genl.dp),
                                  !.port_no = OFPP_LOCAL,
                                  !.ret = "new_dp_local"]
       \/ /\ Goto("err_destroy_dp_dev")
          /\ UNCHANGED << cb, chain, port_list >>
    /\ UNCHANGED << cb, dps, dpMem, netdev, local_port, modrefs, ports, nbp,
                    br_port, promisc, refcnt, lockVars, task, rd, rcuWait,
                    ofp, fwd >>

\* new_dp: dp->local_port = new_nbp(dp, dp->netdev, OFPP_LOCAL) has
\* returned in genl.p.
new_dp_local ==
    /\ genl.pc = "new_dp_local"
    /\ local_port' = [local_port EXCEPT ![genl.dp] = genl.p]
    /\ IF genl.p = ERRPTR
       THEN Goto("err_destroy_local_port")
       ELSE genl' = [genl EXCEPT !.err = 0, !.pc = "new_dp_kthread"]
    /\ UNCHANGED << cb, dps, dpMem, chain, netdev, modrefs, portVars, lockVars,
                    task, rd, rcuWait, ofp, fwd >>

\* new_dp: dp->dp_task = kthread_run(dp_maint_func, ...); err is not set
\* when it fails.
new_dp_kthread ==
    /\ genl.pc = "new_dp_kthread"
    /\ \/ /\ task' = [task EXCEPT ![genl.dp] = [NoTask EXCEPT !.pc = "sleep"]]
          /\ Goto("new_dp_publish")
       \/ /\ Goto("err_destroy_chain")
          /\ UNCHANGED task
    /\ UNCHANGED << cb, dpVars, portVars, lockVars, rd, rcuWait, ofp, fwd >>

\* new_dp: dps[dp_idx] = dp
new_dp_publish ==
    /\ genl.pc = "new_dp_publish"
    /\ dps' = [dps EXCEPT ![genl.dp] = TRUE]
    /\ Goto("new_dp_unlock")
    /\ UNCHANGED << cb, dpMem, chain, netdev, local_port, modrefs, portVars,
                    lockVars, task, rd, rcuWait, ofp, fwd >>

\* new_dp: mutex_unlock(&dp_mutex); rtnl_unlock(); return 0
new_dp_unlock ==
    /\ genl.pc = "new_dp_unlock"
    /\ dp_mutex' = FREE
    /\ rtnl' = FREE
    /\ Return(0)
    /\ UNCHANGED << cb, dpVars, portVars, task, rd, rcuWait, ofp, fwd >>

\* new_dp, err_destroy_local_port: dp_del_switch_port(dp->local_port)
err_destroy_local_port ==
    /\ genl.pc = "err_destroy_local_port"
    /\ genl' = [genl EXCEPT !.pc = "del_promisc",
                            !.p = local_port[genl.dp],
                            !.ret = "err_destroy_chain"]
    /\ UNCHANGED << cb, dpVars, portVars, lockVars, task, rd, rcuWait, ofp, fwd >>

\* new_dp, err_destroy_chain: chain_destroy(dp->chain)
err_destroy_chain ==
    /\ genl.pc = "err_destroy_chain"
    /\ chain' = [chain EXCEPT ![genl.dp] = "destroyed"]
    /\ Goto("err_destroy_dp_dev")
    /\ UNCHANGED << cb, dps, dpMem, netdev, local_port, modrefs, portVars,
                    lockVars, task, rd, rcuWait, ofp, fwd >>

\* new_dp, err_destroy_dp_dev: dp_dev_destroy(dp)
err_destroy_dp_dev ==
    /\ genl.pc = "err_destroy_dp_dev"
    /\ netdev' = [netdev EXCEPT ![genl.dp] = "destroyed"]
    /\ Goto("err_free_dp")
    /\ UNCHANGED << cb, dps, dpMem, chain, local_port, modrefs, portVars,
                    lockVars, task, rd, rcuWait, ofp, fwd >>

\* new_dp, err_free_dp: kfree(dp)
err_free_dp ==
    /\ genl.pc = "err_free_dp"
    /\ dpMem' = [dpMem EXCEPT ![genl.dp] = "freed"]
    /\ Goto("err_put")
    /\ UNCHANGED << cb, dps, chain, netdev, local_port, modrefs, portVars,
                    lockVars, task, rd, rcuWait, ofp, fwd >>

\* new_dp, err_put: module_put(THIS_MODULE)
err_put ==
    /\ genl.pc = "err_put"
    /\ modrefs' = modrefs - 1
    /\ Goto("err_unlock")
    /\ UNCHANGED << cb, dps, dpMem, chain, netdev, local_port, portVars,
                    lockVars, task, rd, rcuWait, ofp, fwd >>

\* new_dp, err_unlock: mutex_unlock(&dp_mutex); rtnl_unlock(); return err
err_unlock ==
    /\ genl.pc = "err_unlock"
    /\ dp_mutex' = FREE
    /\ rtnl' = FREE
    /\ Return(genl.err)
    /\ UNCHANGED << cb, dpVars, portVars, task, rd, rcuWait, ofp, fwd >>

\* ------------------------------------------------------------------------
\* new_nbp(dp, dev, port_no), called with genl.dp, genl.dev, genl.port_no;
\* the result (the port, named by its device, or an ERR_PTR) is left in
\* genl.p, the error code of an ERR_PTR in genl.err.
\* ------------------------------------------------------------------------
\* new_nbp: the EBUSY test, kzalloc, dev_set_promiscuity(dev, 1),
\* dev_hold(dev) and the initialisation of the fields of p.
nbp_check ==
    /\ genl.pc = "nbp_check"
    /\ IF br_port[genl.dev] # NULL
       THEN /\ genl' = [genl EXCEPT !.p = ERRPTR, !.err = -EBUSY,
                                    !.pc = genl.ret]
            /\ UNCHANGED << cb, nbp, promisc, refcnt >>
       ELSE \/ /\ genl' = [genl EXCEPT !.p = ERRPTR, !.err = -ENOMEM,
                                       !.pc = genl.ret]
               /\ UNCHANGED << cb, nbp, promisc, refcnt >>
            \/ /\ nbp' = [nbp EXCEPT ![genl.dev] =
                            [mem |-> "alloc", dp |-> genl.dp,
                             port_no |-> genl.port_no, config |-> {},
                             addSent |-> FALSE, delSent |-> FALSE]]
               /\ promisc' = [promisc EXCEPT ![genl.dev] = @ + 1]
               /\ refcnt' = [refcnt EXCEPT ![genl.dev] = @ + 1]
               /\ genl' = [genl EXCEPT !.p = genl.dev, !.pc = "nbp_br"]
    /\ UNCHANGED << cb, dpVars, ports, port_list, br_port, lockVars, task, rd,
                    rcuWait, ofp, fwd >>

\* new_nbp: if (port_no != OFPP_LOCAL) rcu_assign_pointer(dev->br_port, p)
nbp_br ==
    /\ genl.pc = "nbp_br"
    /\ br_port' = IF genl.port_no # OFPP_LOCAL
                  THEN [br_port EXCEPT ![genl.dev] = genl.p]
                  ELSE br_port
    /\ Goto("nbp_ports")
    /\ UNCHANGED << cb, dpVars, ports, port_list, nbp, promisc, refcnt,
                    lockVars, task, rd, rcuWait, ofp, fwd >>

\* new_nbp: if (port_no < DP_MAX_PORTS)
\*              rcu_assign_pointer(dp->ports[port_no], p)
nbp_ports ==
    /\ genl.pc = "nbp_ports"
    /\ ports' = IF genl.port_no < MaxPorts
                THEN [ports EXCEPT ![genl.dp][genl.port_no] = genl.p]
                ELSE ports
    /\ Goto("nbp_list")
    /\ UNCHANGED << cb, dpVars, port_list, nbp, br_port, promisc, refcnt,
                    lockVars, task, rd, rcuWait, ofp, fwd >>

\* Variant of nbp_list that returns the port without linking it into
\* dp->port_list.
nbp_list_nolink ==
    /\ genl.pc = "nbp_list"
    /\ Goto(genl.ret)
    /\ UNCHANGED << cb, dpVars, portVars, lockVars, task, rd, rcuWait, ofp, fwd >>

\* new_nbp: list_add_rcu(&p->node, &dp->port_list); return p
nbp_list ==
    /\ genl.pc = "nbp_list"
    /\ port_list' = [port_list EXCEPT ![genl.dp] = << genl.p >> \o @]
    /\ Goto(genl.ret)
    /\ UNCHANGED << cb, dpVars, ports, nbp, br_port, promisc, refcnt, lockVars,
                    task, rd, rcuWait, ofp, fwd >>

\* ------------------------------------------------------------------------
\* synchronize_rcu(): returns once every reader that was inside a read
\* section when it was called has left that section.
\* ------------------------------------------------------------------------
synchronize_rcu ==
    /\ genl.pc = "sync"
    /\ rcuWait' = {r \in Readers : InSection(r)}
    /\ Goto("sync_wait")
    /\ UNCHANGED << cb, dpVars, portVars, lockVars, task, rd, ofp, fwd >>

\* Variant of synchronize_rcu_done that returns without waiting for the
\* readers (a grace period that is not a grace period).
synchronize_rcu_nowait ==
    /\ genl.pc = "sync_wait"
    /\ Goto(genl.sret)
    /\ UNCHANGED << cb, dpVars, portVars, lockVars, task, rd, rcuWait, ofp, fwd >>

synchronize_rcu_done ==
    /\ genl.pc = "sync_wait"
    /\ rcuWait = {}
    /\ Goto(genl.sret)
    /\ UNCHANGED << cb, dpVars, portVars, lockVars, task, rd, rcuWait, ofp, fwd >>

\* ------------------------------------------------------------------------
\* dp_del_switch_port(p), called with the port in genl.p.  The hooks
\* dp_del_if_hook and friends are NULL (dp_init), so the port is released
\* by dev_put() and kfree().
\* ------------------------------------------------------------------------
\* dp_del_switch_port: dev_set_promiscuity(p->dev, -1).  Reading p->dev
\* through an ERR_PTR is a fault in kernel context: the handler dies with
\* its locks held.
del_promisc ==
    /\ genl.pc = "del_promisc"
    /\ IF genl.p = ERRPTR
       THEN /\ Goto("oops")
            /\ UNCHANGED promisc
       ELSE /\ promisc' = [promisc EXCEPT ![genl.p] = @ - 1]
            /\ Goto("del_list")
    /\ UNCHANGED << cb, dpVars, ports, port_list, nbp, br_port, refcnt,
                    lockVars, task, rd, rcuWait, ofp, fwd >>

\* Variant of del_list that sends the DELETE notification at once, before
\* the port is unbound from its device and before the readers are drained.
del_list_notify ==
    /\ genl.pc = "del_list"
    /\ port_list' = [port_list EXCEPT ![nbp[genl.p].dp] = Remove(@, genl.p)]
    /\ nbp' = [nbp EXCEPT ![genl.p].delSent = TRUE]
    /\ Goto("del_ports")
    /\ UNCHANGED << cb, dpVars, ports, br_port, promisc, refcnt, lockVars,
                    task, rd, rcuWait, ofp, fwd >>

\* dp_del_switch_port: list_del_rcu(&p->node)
del_list ==
    /\ genl.pc = "del_list"
    /\ port_list' = [port_list EXCEPT ![nbp[genl.p].dp] = Remove(@, genl.p)]
    /\ Goto("del_ports")
    /\ UNCHANGED << cb, dpVars, ports, nbp, br_port, promisc, refcnt, lockVars,
                    task, rd, rcuWait, ofp, fwd >>

\* Variant of del_ports that leaves the slot of the port as it is.
del_ports_keep ==
    /\ genl.pc = "del_ports"
    /\ Goto("del_br")
    /\ UNCHANGED << cb, dpVars, portVars, lockVars, task, rd, rcuWait, ofp, fwd >>

\* dp_del_switch_port: if (p->port_no != OFPP_LOCAL)
\*                         rcu_assign_pointer(p->dp->ports[p->port_no], NULL)
del_ports ==
    /\ genl.pc = "del_ports"
    /\ ports' = IF nbp[genl.p].port_no # OFPP_LOCAL
                THEN [ports EXCEPT ![nbp[genl.p].dp][nbp[genl.p].port_no] = NULL]
                ELSE ports
    /\ Goto("del_br")
    /\ UNCHANGED << cb, dpVars, port_list, nbp, br_port, promisc, refcnt,
                    lockVars, task, rd, rcuWait, ofp, fwd >>

\* dp_del_switch_port: rcu_assign_pointer(p->dev->br_port, NULL), then
\* the call of synchronize_rcu()
del_br ==
    /\ genl.pc = "del_br"
    /\ br_port' = [br_port EXCEPT ![genl.p] = NULL]
    /\ genl' = [genl EXCEPT !.pc = "sync", !.sret = "del_notify"]
    /\ UNCHANGED << cb, dpVars, ports, port_list, nbp, promisc, refcnt,
                    lockVars, task, rd, rcuWait, ofp, fwd >>

\* dp_send_port_status(p, status): the message is multicast unless
\* alloc_openflow_skb fails (GFP_ATOMIC).
dp_send_port_status(p, status, sent) ==
    IF ~sent THEN nbp' = nbp
    ELSE IF status = "ADD" THEN nbp' = [nbp EXCEPT ![p].addSent = TRUE]
    ELSE nbp' = [nbp EXCEPT ![p].delSent = TRUE]

\* dp_del_switch_port: dp_send_port_status(p, OFPPR_DELETE)
del_notify ==
    /\ genl.pc = "del_notify"
    /\ \E sent \in BOOLEAN : dp_send_port_status(genl.p, "DELETE", sent)
    /\ Goto("del_release")
    /\ UNCHANGED << cb, dpVars, ports, port_list, br_port, promisc, refcnt,
                    lockVars, task, rd, rcuWait, ofp, fwd >>

\* dp_del_switch_port: dev_put(p->dev); kfree(p); return 0
del_release ==
    /\ genl.pc = "del_release"
    /\ refcnt' = [refcnt EXCEPT ![genl.p] = @ - 1]
    /\ nbp' = [nbp EXCEPT ![genl.p] = [NoPort EXCEPT !.mem = "freed"]]
    /\ Goto(genl.ret)
    /\ UNCHANGED << cb, dpVars, ports, port_list, br_port, promisc, lockVars,
                    task, rd, rcuWait, ofp, fwd >>

\* ------------------------------------------------------------------------
\* Lookups
\* ------------------------------------------------------------------------
\* dp_get_by_idx: the datapath registered under dp_idx, or NULL (here -1).
dp_get_by_idx(dp_idx) ==
    IF dp_idx < 0 \/ dp_idx >= MaxDp THEN -1
    ELSE IF dps[dp_idx] THEN dp_idx ELSE -1

\* lookup_dp with a DP_IDX attribute only (idx = -1: no attribute at all);
\* the result is a datapath or a negative error code below -1.
lookup_dp(idx) ==
    IF idx # -1
    THEN IF dp_get_by_idx(idx) = -1 THEN -ENOENT ELSE dp_get_by_idx(idx)
    ELSE -EINVAL

\* dev_get_by_name finds the Ethernet interfaces and the local interfaces
\* of the datapaths that currently have one.
DevExists(d) ==
    \/ d \in EthDevs
    \/ \E i \in DpIdx : d = LocalDev(i) /\ netdev[i] = "registered"

is_dp_dev(d) == d \in LocalDevs

\* fill_features_reply: the port descriptions of a FEATURES_REPLY, one per
\* member of dp->port_list in list order.
fill_features_reply(i) ==
    [k \in 1 .. Len(port_list[i]) |->
        [port_no |-> nbp[port_list[i][k]].port_no, dev |-> port_list[i][k]]]

\* The history that a port command starts with: ADD_PORT records the
\* datapath as it finds it, a DEL_PORT of the interface that the command
\* before it added keeps that record, anything else drops it.
History(cmd, idx, name) ==
    IF cmd = "add_port"
    THEN IF idx \in DpIdx
         THEN [dev |-> name, ports |-> ports[idx],
               port_list |-> port_list[idx],
               features |-> fill_features_reply(idx)]
         ELSE NoPre
    ELSE IF /\ genl.cmd = "add_port" /\ genl.pc = "return" /\ genl.err = 0
            /\ genl.dp = idx /\ genl.pre # NoPre /\ genl.pre.dev = name
         THEN genl.pre
         ELSE NoPre

\* ------------------------------------------------------------------------
\* dp_genl_add_del_port: the ADD_PORT and DEL_PORT commands.  name is the
\* PORTNAME attribute (NULL when absent).
\* ------------------------------------------------------------------------
dp_genl_add_del_port(cmd, idx, name) ==
    /\ genl.pc \in {"idle", "return"}
    /\ IF name = NULL
       THEN genl' = [IdleGenl EXCEPT !.cmd = cmd, !.pc = "return",
                                     !.err = -EINVAL]
       ELSE genl' = [IdleGenl EXCEPT !.cmd = cmd, !.pc = "port_rtnl",
                                     !.dp = idx, !.dev = name,
                                     !.pre = History(cmd, idx, name)]
    /\ UNCHANGED << cb, dpVars, portVars, lockVars, task, rd, rcuWait, ofp, fwd >>

\* dp_genl_add_del_port: rtnl_lock()
port_rtnl ==
    /\ genl.pc = "port_rtnl"
    /\ rtnl = FREE
    /\ rtnl' = GENL
    /\ Goto("port_mutex")
    /\ UNCHANGED << cb, dpVars, portVars, dp_mutex, task, rd, rcuWait, ofp, fwd >>

\* dp_genl_add_del_port: mutex_lock(&dp_mutex)
port_mutex ==
    /\ genl.pc = "port_mutex"
    /\ dp_mutex = FREE
    /\ dp_mutex' = GENL
    /\ Goto("port_lookup")
    /\ UNCHANGED << cb, dpVars, portVars, rtnl, task, rd, rcuWait, ofp, fwd >>

\* dp_genl_add_del_port: dp = lookup_dp(info)
port_lookup ==
    /\ genl.pc = "port_lookup"
    /\ IF lookup_dp(genl.dp) < 0
       THEN genl' = [genl EXCEPT !.err = lookup_dp(genl.dp),
                                 !.pc = "out_unlock"]
       ELSE Goto("port_devget")
    /\ UNCHANGED << cb, dpVars, portVars, lockVars, task, rd, rcuWait, ofp, fwd >>

\* dp_genl_add_del_port: port = dev_get_by_name(...), which takes a
\* reference on the interface.
port_devget ==
    /\ genl.pc = "port_devget"
    /\ IF ~DevExists(genl.dev)
       THEN /\ genl' = [genl EXCEPT !.err = -ENOENT, !.pc = "out_unlock"]
            /\ UNCHANGED refcnt
       ELSE /\ refcnt' = [refcnt EXCEPT ![genl.dev] = @ + 1]
            /\ Goto(IF genl.cmd = "add_port" THEN "add_switch_port"
                    ELSE "del_check")
    /\ UNCHANGED << cb, dpVars, ports, port_list, nbp, br_port, promisc,
                    lockVars, task, rd, rcuWait, ofp, fwd >>

\* add_switch_port: the device checks, find_portno and the call of new_nbp.
add_switch_port ==
    /\ genl.pc = "add_switch_port"
    /\ IF is_dp_dev(genl.dev)
       THEN genl' = [genl EXCEPT !.err = -EINVAL, !.pc = "out_put"]
       ELSE IF find_portno(genl.dp) < 0
       THEN genl' = [genl EXCEPT !.err = find_portno(genl.dp),
                                 !.pc = "out_put"]
       ELSE genl' = [genl EXCEPT !.port_no = find_portno(genl.dp),
                                 !.pc = "nbp_check", !.ret = "add_nbp_ret"]
    /\ UNCHANGED << cb, dpVars, portVars, lockVars, task, rd, rcuWait, ofp, fwd >>

\* add_switch_port: new_nbp has returned; on success init_port_status(p).
add_nbp_ret ==
    /\ genl.pc = "add_nbp_ret"
    /\ IF genl.p = ERRPTR
       THEN Goto("out_put")
       ELSE Goto("add_notify")
    /\ UNCHANGED << cb, dpVars, portVars, lockVars, task, rd, rcuWait, ofp, fwd >>

\* add_switch_port: dp_send_port_status(p, OFPPR_ADD); return 0
add_notify ==
    /\ genl.pc = "add_notify"
    /\ \E sent \in BOOLEAN : dp_send_port_status(genl.p, "ADD", sent)
    /\ genl' = [genl EXCEPT !.err = 0, !.pc = "out_put"]
    /\ UNCHANGED << cb, dpVars, ports, port_list, br_port, promisc, refcnt,
                    lockVars, task, rd, rcuWait, ofp, fwd >>

\* dp_genl_add_del_port, DEL_PORT: the interface must be a port of dp.
del_check ==
    /\ genl.pc = "del_check"
    /\ IF br_port[genl.dev] = NULL \/ nbp[br_port[genl.dev]].dp # genl.dp
       THEN genl' = [genl EXCEPT !.err = -ENOENT, !.pc = "out_put"]
       ELSE genl' = [genl EXCEPT !.p = br_port[genl.dev], !.err = 0,
                                 !.pc = "del_promisc", !.ret = "out_put"]
    /\ UNCHANGED << cb, dpVars, portVars, lockVars, task, rd, rcuWait, ofp, fwd >>

\* dp_genl_add_del_port, out_put: dev_put(port)
out_put ==
    /\ genl.pc = "out_put"
    /\ refcnt' = [refcnt EXCEPT ![genl.dev] = @ - 1]
    /\ Goto("out_unlock")
    /\ UNCHANGED << cb, dpVars, ports, port_list, nbp, br_port, promisc,
                    lockVars, task, rd, rcuWait, ofp, fwd >>

\* dp_genl_add_del_port, out_unlock: unlock and return err
out_unlock ==
    /\ genl.pc = "out_unlock"
    /\ dp_mutex' = FREE
    /\ rtnl' = FREE
    /\ Return(genl.err)
    /\ UNCHANGED << cb, dpVars, portVars, task, rd, rcuWait, ofp, fwd >>

\* ------------------------------------------------------------------------
\* dp_genl_del: the DEL_DP command, and del_dp.
\* ------------------------------------------------------------------------
dp_genl_del(idx) ==
    /\ genl.pc \in {"idle", "return"}
    /\ genl' = [IdleGenl EXCEPT !.cmd = "del_dp", !.pc = "deldp_rtnl",
                                !.dp = idx]
    /\ UNCHANGED << cb, dpVars, portVars, lockVars, task, rd, rcuWait, ofp, fwd >>

\* dp_genl_del: rtnl_lock()
deldp_rtnl ==
    /\ genl.pc = "deldp_rtnl"
    /\ rtnl = FREE
    /\ rtnl' = GENL
    /\ Goto("deldp_mutex")
    /\ UNCHANGED << cb, dpVars, portVars, dp_mutex, task, rd, rcuWait, ofp, fwd >>

\* Variant of deldp_mutex that goes on without taking dp_mutex.
deldp_mutex_skip ==
    /\ genl.pc = "deldp_mutex"
    /\ Goto("deldp_lookup")
    /\ UNCHANGED << cb, dpVars, portVars, lockVars, task, rd, rcuWait, ofp, fwd >>

\* dp_genl_del: mutex_lock(&dp_mutex)
deldp_mutex ==
    /\ genl.pc = "deldp_mutex"
    /\ dp_mutex = FREE
    /\ dp_mutex' = GENL
    /\ Goto("deldp_lookup")
    /\ UNCHANGED << cb, dpVars, portVars, rtnl, task, rd, rcuWait, ofp, fwd >>

\* dp_genl_del: dp = lookup_dp(info); dev = dp->netdev
deldp_lookup ==
    /\ genl.pc = "deldp_lookup"
    /\ IF lookup_dp(genl.dp) < 0
       THEN genl' = [genl EXCEPT !.err = lookup_dp(genl.dp),
                                 !.pc = "deldp_unlock"]
       ELSE genl' = [genl EXCEPT !.dev = LocalDev(genl.dp),
                                 !.pc = "del_dp_sig"]
    /\ UNCHANGED << cb, dpVars, portVars, lockVars, task, rd, rcuWait, ofp, fwd >>

\* del_dp: send_sig(SIGKILL, dp->dp_task, 0)
del_dp_sig ==
    /\ genl.pc = "del_dp_sig"
    /\ task' = [task EXCEPT ![genl.dp].sig = TRUE]
    /\ Goto("del_dp_stop")
    /\ UNCHANGED << cb, dpVars, portVars, lockVars, rd, rcuWait, ofp, fwd >>

\* del_dp: kthread_stop(dp->dp_task) sets the stop flag and wakes the
\* thread (wake_up_process makes it runnable whatever it sleeps in)...
del_dp_stop ==
    /\ genl.pc = "del_dp_stop"
    /\ task' = [task EXCEPT ![genl.dp].should_stop = TRUE,
                            ![genl.dp].state = "running"]
    /\ Goto("del_dp_join")
    /\ UNCHANGED << cb, dpVars, portVars, lockVars, rd, rcuWait, ofp, fwd >>

\* Variant of del_dp_join that does not wait for the thread.
del_dp_nojoin ==
    /\ genl.pc = "del_dp_join"
    /\ Goto("del_dp_ports")
    /\ UNCHANGED << cb, dpVars, portVars, lockVars, task, rd, rcuWait, ofp, fwd >>

\* ... and waits until the thread function has returned.
del_dp_join ==
    /\ genl.pc = "del_dp_join"
    /\ task[genl.dp].pc = "exited"
    /\ Goto("del_dp_ports")
    /\ UNCHANGED << cb, dpVars, portVars, lockVars, task, rd, rcuWait, ofp, fwd >>

\* Variant of del_dp_ports that goes on without deleting the ports.
del_dp_ports_skip ==
    /\ genl.pc = "del_dp_ports"
    /\ Goto("del_dp_unpublish")
    /\ UNCHANGED << cb, dpVars, portVars, lockVars, task, rd, rcuWait, ofp, fwd >>

\* del_dp: list_for_each_entry_safe(p, n, &dp->port_list, node)
\*             dp_del_switch_port(p)
del_dp_ports ==
    /\ genl.pc = "del_dp_ports"
    /\ IF port_list[genl.dp] # << >>
       THEN genl' = [genl EXCEPT !.p = Head(port_list[genl.dp]),
                                 !.pc = "del_promisc",
                                 !.ret = "del_dp_ports"]
       ELSE Goto("del_dp_unpublish")
    /\ UNCHANGED << cb, dpVars, portVars, lockVars, task, rd, rcuWait, ofp, fwd >>

\* del_dp: rcu_assign_pointer(dps[dp->dp_idx], NULL); synchronize_rcu()
del_dp_unpublish ==
    /\ genl.pc = "del_dp_unpublish"
    /\ dps' = [dps EXCEPT ![genl.dp] = FALSE]
    /\ genl' = [genl EXCEPT !.pc = "sync", !.sret = "del_dp_discard"]
    /\ UNCHANGED << cb, dpMem, chain, netdev, local_port, modrefs, portVars,
                    lockVars, task, rd, rcuWait, ofp, fwd >>

\* del_dp: fwd_discard_all(), which empties the store of buffered packets
\* (the store belongs to the forwarding code and has no state here).
del_dp_discard ==
    /\ genl.pc = "del_dp_discard"
    /\ Goto("del_dp_dev_destroy")
    /\ UNCHANGED << cb, dpVars, portVars, lockVars, task, rd, rcuWait, ofp, fwd >>

\* del_dp: dp_dev_destroy(dp); synchronize_rcu()
del_dp_dev_destroy ==
    /\ genl.pc = "del_dp_dev_destroy"
    /\ netdev' = [netdev EXCEPT ![genl.dp] = "destroyed"]
    /\ genl' = [genl EXCEPT !.pc = "sync", !.sret = "del_dp_chain"]
    /\ UNCHANGED << cb, dps, dpMem, chain, local_port, modrefs, portVars,
                    lockVars, task, rd, rcuWait, ofp, fwd >>

\* del_dp: chain_destroy(dp->chain)
del_dp_chain ==
    /\ genl.pc = "del_dp_chain"
    /\ chain' = [chain EXCEPT ![genl.dp] = "destroyed"]
    /\ Goto("del_dp_free")
    /\ UNCHANGED << cb, dps, dpMem, netdev, local_port, modrefs, portVars,
                    lockVars, task, rd, rcuWait, ofp, fwd >>

\* del_dp: kfree(dp); module_put(THIS_MODULE)
del_dp_free ==
    /\ genl.pc = "del_dp_free"
    /\ dpMem' = [dpMem EXCEPT ![genl.dp] = "freed"]
    /\ modrefs' = modrefs - 1
    /\ genl' = [genl EXCEPT !.err = 0, !.pc = "deldp_unlock"]
    /\ UNCHANGED << cb, dps, chain, netdev, local_port, portVars, lockVars,
                    task, rd, rcuWait, ofp, fwd >>

\* dp_genl_del: unlock, free_netdev(dev), return err
deldp_unlock ==
    /\ genl.pc = "deldp_unlock"
    /\ dp_mutex' = FREE
    /\ rtnl' = FREE
    /\ Return(genl.err)
    /\ UNCHANGED << cb, dpVars, portVars, task, rd, rcuWait, ofp, fwd >>

\* ------------------------------------------------------------------------
\* dp_genl_query: the QUERY_DP command, a read-side command that runs
\* between rcu_read_lock() and rcu_read_unlock() without dp_mutex.
\* ------------------------------------------------------------------------
\* dp_genl_query: rcu_read_lock(); dp = lookup_dp(info)
dp_genl_query(idx) ==
    /\ genl.pc \in {"idle", "return"}
    /\ IF lookup_dp(idx) < 0
       THEN genl' = [IdleGenl EXCEPT !.cmd = "query", !.pc = "return",
                                     !.err = lookup_dp(idx)]
       ELSE genl' = [IdleGenl EXCEPT !.cmd = "query", !.pc = "query_reply",
                                     !.dp = lookup_dp(idx), !.rcu = TRUE]
    /\ UNCHANGED << cb, dpVars, portVars, lockVars, task, rd, rcuWait, ofp, fwd >>

\* dp_genl_query: nlmsg_new (may fail), then the reply built from
\* dp->dp_idx and dp->netdev->name; rcu_read_unlock(); return err.
\* Reading a datapath that has been freed, or the name of a local
\* interface that has been destroyed, is a fault.
dp_genl_query_reply ==
    /\ genl.pc = "query_reply"
    /\ \/ Return(-ENOMEM)
       \/ IF dpMem[genl.dp] = "alloc" /\ netdev[genl.dp] = "registered"
          THEN Return(0)
          ELSE Goto("oops")
    /\ UNCHANGED << cb, dpVars, portVars, lockVars, task, rd, rcuWait, ofp, fwd >>

\* ------------------------------------------------------------------------
\* dp_maint_func: the maintenance thread of datapath i.
\* ------------------------------------------------------------------------
\* chain_timeout(dp->chain): the sweep takes dp_mutex around its work; a
\* thread with a signal pending does not wait for the mutex.
chain_timeout(i) ==
    /\ task[i].pc = "sweep"
    /\ \/ /\ dp_mutex = FREE
          /\ dp_mutex' = i
          /\ task' = [task EXCEPT ![i].pc = "sweeping"]
       \/ /\ dp_mutex # FREE
          /\ task[i].sig
          /\ task' = [task EXCEPT ![i].pc = "sleep"]
          /\ UNCHANGED dp_mutex
    /\ UNCHANGED << cb, dpVars, portVars, rtnl, genl, rd, rcuWait, ofp, fwd >>

chain_timeout_done(i) ==
    /\ task[i].pc = "sweeping"
    /\ dp_mutex' = FREE
    /\ task' = [task EXCEPT ![i].pc = "sleep"]
    /\ UNCHANGED << cb, dpVars, portVars, rtnl, genl, rd, rcuWait, ofp, fwd >>

\* msleep_interruptible(MAINT_SLEEP_MSECS) returns after the timeout or
\* when a signal arrives; then the test of the first loop,
\* while (!signal_pending(current)).  The thread starts at this test.
maint_sleep(i) ==
    /\ task[i].pc = "sleep"
    /\ task' = [task EXCEPT ![i].pc = IF task[i].sig THEN "stop_check"
                                      ELSE "sweep"]
    /\ UNCHANGED << cb, dpVars, portVars, lockVars, genl, rd, rcuWait, ofp, fwd >>

\* Variant of maint_stop_check that goes back to the sweep when it is not
\* told to stop.
maint_stop_check_sweep(i) ==
    /\ task[i].pc = "stop_check"
    /\ task' = [task EXCEPT ![i].pc = IF task[i].should_stop THEN "exited"
                                      ELSE "sweep"]
    /\ UNCHANGED << cb, dpVars, portVars, lockVars, genl, rd, rcuWait, ofp, fwd >>

\* while (!kthread_should_stop()) ...; return 0
maint_stop_check(i) ==
    /\ task[i].pc = "stop_check"
    /\ task' = [task EXCEPT ![i].pc = IF task[i].should_stop THEN "exited"
                                      ELSE "set_state"]
    /\ UNCHANGED << cb, dpVars, portVars, lockVars, genl, rd, rcuWait, ofp, fwd >>

\* set_current_state(TASK_UNINTERRUPTIBLE)
maint_set_state(i) ==
    /\ task[i].pc = "set_state"
    /\ task' = [task EXCEPT ![i].pc = "schedule",
                            ![i].state = "uninterruptible"]
    /\ UNCHANGED << cb, dpVars, portVars, lockVars, genl, rd, rcuWait, ofp, fwd >>

\* schedule() returns only once the thread is runnable again; SIGKILL
\* does not wake a TASK_UNINTERRUPTIBLE sleeper.
maint_schedule(i) ==
    /\ task[i].pc = "schedule"
    /\ task[i].state = "running"
    /\ task' = [task EXCEPT ![i].pc = "stop_check"]
    /\ UNCHANGED << cb, dpVars, portVars, lockVars, genl, rd, rcuWait, ofp, fwd >>

\* ------------------------------------------------------------------------
\* The data plane: a frame received on interface d.  The host stack calls
\* dp_frame_hook(p, skb) inside an RCU read section with
\* p = rcu_dereference(dev->br_port), when that is not NULL.
\* ------------------------------------------------------------------------
dp_frame_hook(r, d) ==
    /\ rd[r].pc = "idle"
    /\ br_port[d] # NULL
    /\ rd' = [rd EXCEPT ![r] = [IdleReader EXCEPT !.pc = "input", !.dev = d,
                                                  !.p = br_port[d]]]
    /\ UNCHANGED << cb, dpVars, portVars, lockVars, genl, task, rcuWait, ofp, fwd >>

\* The hook returns and the host stack leaves the RCU read section
\* (rcu_read_unlock).
Leave(r) ==
    /\ rd' = [rd EXCEPT ![r] = IdleReader]
    /\ rcuWait' = rcuWait \ {r}

\* do_port_input: fwd_port_input(p->dp->chain, skb, p).  The flow tables
\* either miss (the frame goes to dp_output_control), or name an output
\* port (dp_output_port), or drop the frame.  Reading p->dp from a port
\* that has been freed is a fault.
do_port_input(r) ==
    /\ rd[r].pc = "input"
    /\ IF nbp[rd[r].p].mem # "alloc"
       THEN /\ rd' = [rd EXCEPT ![r] = [IdleReader EXCEPT !.pc = "oops"]]
            /\ UNCHANGED rcuWait
       ELSE \/ /\ rd' = [rd EXCEPT ![r].dp = nbp[rd[r].p].dp,
                                   ![r].pc = "ctl"]
               /\ UNCHANGED rcuWait
            \/ /\ \E n \in Slots :
                    rd' = [rd EXCEPT ![r].dp = nbp[rd[r].p].dp,
                                     ![r].pc = "out", ![r].out = n]
               /\ UNCHANGED rcuWait
            \/ Leave(r)
    /\ UNCHANGED << cb, dpVars, portVars, lockVars, genl, task, ofp, fwd >>

\* dp_output_control: alloc_openflow_skb (may fail), then the test
\* "skb->dev && skb->dev->br_port" that chooses between the port number
\* and OFPP_LOCAL for in_port.
dp_output_control(r) ==
    /\ rd[r].pc = "ctl"
    /\ \/ Leave(r)
       \/ /\ br_port[rd[r].dev] = NULL
          /\ rd' = [rd EXCEPT ![r].pc = "pin_sent", ![r].pin = NULL]
          /\ UNCHANGED rcuWait
       \/ /\ br_port[rd[r].dev] # NULL
          /\ rd' = [rd EXCEPT ![r].pc = "ctl_port"]
          /\ UNCHANGED rcuWait
    /\ UNCHANGED << cb, dpVars, portVars, lockVars, genl, task, ofp, fwd >>

\* dp_output_control: in_port = skb->dev->br_port->port_no, a second plain
\* read of br_port; the PACKET_IN is then multicast.  A NULL read here is
\* a fault in softirq context.
dp_output_control_port(r) ==
    /\ rd[r].pc = "ctl_port"
    /\ IF br_port[rd[r].dev] = NULL
       THEN rd' = [rd EXCEPT ![r] = [IdleReader EXCEPT !.pc = "oops"]]
       ELSE rd' = [rd EXCEPT ![r].pc = "pin_sent",
                             ![r].pin = br_port[rd[r].dev],
                             ![r].seenAdd = nbp[br_port[rd[r].dev]].addSent,
                             ![r].seenDel = nbp[br_port[rd[r].dev]].delSent]
    /\ UNCHANGED << cb, dpVars, portVars, lockVars, genl, task, rcuWait, ofp, fwd >>

\* dp_output_control: kfree_skb(skb); return err
dp_output_control_done(r) ==
    /\ rd[r].pc = "pin_sent"
    /\ Leave(r)
    /\ UNCHANGED << cb, dpVars, portVars, lockVars, genl, task, ofp, fwd >>

\* dp_output_port, case 0 ... DP_MAX_PORTS - 1: p = dp->ports[out_port];
\* bad port when NULL, -EINVAL when p->dev is the ingress device,
\* otherwise skb->dev = p->dev and dp_xmit_skb(skb).
dp_output_port(r) ==
    /\ rd[r].pc = "out"
    /\ LET q == ports[rd[r].dp][rd[r].out] IN
         IF q = NULL \/ q = rd[r].dev
         THEN Leave(r)
         ELSE /\ rd' = [rd EXCEPT ![r].pc = "xmit", ![r].p2 = q]
              /\ UNCHANGED rcuWait
    /\ UNCHANGED << cb, dpVars, portVars, lockVars, genl, task, ofp, fwd >>

\* dp_xmit_skb: dp = skb->dev->br_port->dp, then the MTU test and
\* dev_queue_xmit.  A NULL br_port is a fault in softirq context.
dp_xmit_skb(r) ==
    /\ rd[r].pc = "xmit"
    /\ IF br_port[rd[r].p2] = NULL
       THEN /\ rd' = [rd EXCEPT ![r] = [IdleReader EXCEPT !.pc = "oops"]]
            /\ UNCHANGED rcuWait
       ELSE Leave(r)
    /\ UNCHANGED << cb, dpVars, portVars, lockVars, genl, task, ofp, fwd >>

\* ------------------------------------------------------------------------
\* The specification
\* ------------------------------------------------------------------------
GenlStep ==
    \/ \E attr \in IdxAttrs, named \in BOOLEAN :
         dp_genl_add(attr, named)
    \/ new_dp_rtnl \/ new_dp_mutex \/ new_dp_idx \/ new_dp_modget
    \/ new_dp_exists \/ new_dp_alloc \/ new_dp_dev_setup \/ new_dp_chain
    \/ new_dp_local \/ new_dp_kthread \/ new_dp_publish \/ new_dp_unlock
    \/ err_destroy_local_port \/ err_destroy_chain \/ err_destroy_dp_dev
    \/ err_free_dp \/ err_put \/ err_unlock
    \/ nbp_check \/ nbp_br \/ nbp_ports \/ nbp_list
    \/ synchronize_rcu \/ synchronize_rcu_done
    \/ del_promisc \/ del_list \/ del_ports \/ del_br \/ del_notify
    \/ del_release
    \/ \E cmd \in {"add_port", "del_port"}, idx \in DpIdx \cup {-1, MaxDp},
          name \in Devs \cup {NULL} :
         dp_genl_add_del_port(cmd, idx, name)
    \/ port_rtnl \/ port_mutex \/ port_lookup \/ port_devget
    \/ add_switch_port \/ add_nbp_ret \/ add_notify \/ del_check
    \/ out_put \/ out_unlock
    \/ \E idx \in DpIdx \cup {-1, MaxDp} : dp_genl_del(idx)
    \/ deldp_rtnl \/ deldp_mutex \/ deldp_lookup
    \/ del_dp_sig \/ del_dp_stop \/ del_dp_join \/ del_dp_ports
    \/ del_dp_unpublish \/ del_dp_discard \/ del_dp_dev_destroy
    \/ del_dp_chain
    \/ del_dp_free \/ deldp_unlock
    \/ \E idx \in DpIdx \cup {-1, MaxDp} : dp_genl_query(idx)
    \/ dp_genl_query_reply

Maint(i) ==
    \/ chain_timeout(i) \/ chain_timeout_done(i) \/ maint_sleep(i)
    \/ maint_stop_check(i) \/ maint_set_state(i) \/ maint_schedule(i)

MaintStep == \E i \in DpIdx : Maint(i)

Rx(r) ==
    \/ \E d \in Devs : dp_frame_hook(r, d)
    \/ do_port_input(r) \/ dp_output_control(r)
    \/ dp_output_control_port(r) \/ dp_output_control_done(r)
    \/ dp_output_port(r) \/ dp_xmit_skb(r)

RxStep == \E r \in Readers : Rx(r)

Next == GenlStep \/ MaintStep \/ RxStep

Spec == Init /\ [][Next]_vars

\* The control plane alone, under fair scheduling: a Generic Netlink
\* handler that can take a step eventually takes one, and so does every
\* maintenance thread.  No frame is received.
LiveNext == GenlStep \/ MaintStep

LiveSpec ==
    /\ Init
    /\ [][LiveNext]_vars
    /\ WF_vars(GenlStep)
    /\ \A i \in DpIdx : WF_vars(Maint(i))

\* ------------------------------------------------------------------------
\* Properties
\* ------------------------------------------------------------------------
\* The ports a data-plane reader holds inside its read section: the port
\* the hook was called with and the port fetched from dp->ports[].
Holds(r, d) == InSection(r) /\ (rd[r].p = d \/ rd[r].p2 = d \/ rd[r].pin = d)

Linked(d) ==
    \/ br_port[d] = d
    \/ \E i \in DpIdx : InList(port_list[i], d)
    \/ \E i \in DpIdx, s \in Slots : ports[i][s] = d

\* C1: a port that dp_del_switch_port has released is linked neither in a
\* port_list, nor in a ports[] table, nor as the br_port of its device,
\* and no data-plane reader inside a read section holds it.
C1_ReleasedPortUnlinkedAndDrained ==
    \A d \in Devs :
        nbp[d].mem = "freed" => /\ ~Linked(d)
                                /\ \A r \in Readers : ~Holds(r, d)

\* C1 witness: DEL_PORT has released the port of an Ethernet interface
\* while a reader is inside a read section on another port.
C1_Witness ==
    \E d \in EthDevs, r \in Readers :
        /\ genl.cmd = "del_port" /\ genl.pc = "out_put" /\ genl.p = d
        /\ nbp[d].mem = "freed"
        /\ InSection(r) /\ rd[r].p # NULL

\* C2: whenever a PACKET_IN naming a port as in_port has been emitted, the
\* PortStatus(ADD) of that port had been multicast before.
C2_AddBeforePacketIn ==
    \A r \in Readers :
        (rd[r].pc = "pin_sent" /\ rd[r].pin # NULL) => rd[r].seenAdd

\* C3: whenever a PACKET_IN naming a port as in_port is emitted, the
\* PortStatus(DELETE) of that port has not been sent yet; when the
\* PACKET_IN carries OFPP_LOCAL, the local port of the datapath is still
\* allocated and its DELETE has not been sent.
C3_NoPacketInAfterDelete ==
    \A r \in Readers :
        rd[r].pc = "pin_sent" =>
            IF rd[r].pin # NULL
            THEN ~rd[r].seenDel
            ELSE /\ nbp[LocalDev(rd[r].dp)].mem = "alloc"
                 /\ ~nbp[LocalDev(rd[r].dp)].delSent

\* C3 witness: a reader has emitted a PACKET_IN naming a port while
\* dp_del_switch_port, having unlinked that port, waits in
\* synchronize_rcu() for this reader before it sends the DELETE.
C3_Witness ==
    \E r \in Readers :
        /\ rd[r].pc = "pin_sent" /\ rd[r].pin # NULL
        /\ genl.pc = "sync_wait" /\ genl.sret = "del_notify"
        /\ genl.p = rd[r].pin
        /\ r \in rcuWait

\* ------------------------------------------------------------------------
\* The OpenFlow passthrough: dp_genl_openflow hands the requests of a
\* sender to the chain.  The specification CtlSpec starts from a state in
\* which datapath 0 has been created and follows one sender.
\* ------------------------------------------------------------------------
Xids == 1 .. MaxXid
Requests == [xid : Xids, type : {"mod", "barrier"}]
Plans == UNION {[1 .. k -> Requests] : k \in 1 .. MaxReq}

\* The request a handler in progress works on.
Cur == ofp.n

\* dp_genl_openflow up to mutex_lock: the attribute checks, the lookup of
\* the datapath, the length check and the initialisation of sender.  idx
\* is the DP_IDX attribute (-1 when absent), short tells whether the
\* message is shorter than an OpenFlow header.
dp_genl_openflow(idx, short) ==
    /\ genl.pc \in {"idle", "return"}
    /\ ofp.n < Len(ofp.q)
    /\ LET k == ofp.n + 1
           e == IF idx = -1 THEN -EINVAL
                ELSE IF dp_get_by_idx(idx) = -1 THEN -ENOENT
                ELSE IF short THEN -EINVAL
                ELSE 0
       IN IF e # 0
          THEN /\ genl' = [IdleGenl EXCEPT !.cmd = "openflow",
                                           !.pc = "return", !.err = e]
               /\ ofp' = [ofp EXCEPT !.n = k, !.settled = @ \cup {k}]
          ELSE /\ genl' = [IdleGenl EXCEPT !.cmd = "openflow", !.dp = idx,
                                           !.pc = "of_mutex"]
               /\ ofp' = [ofp EXCEPT !.n = k, !.xid = ofp.q[k].xid]
    /\ UNCHANGED << cb, dpVars, portVars, lockVars, task, rd, rcuWait, fwd >>

\* Variant of of_mutex that enters the chain without taking dp_mutex.
of_mutex_skip ==
    /\ genl.pc = "of_mutex"
    /\ Goto("of_input")
    /\ ofp' = [ofp EXCEPT !.chained = Append(@, Cur)]
    /\ UNCHANGED << cb, dpVars, portVars, lockVars, task, rd, rcuWait, fwd >>

\* dp_genl_openflow: mutex_lock(&dp_mutex), then the call of
\* fwd_control_input(dp->chain, &sender, ...)
of_mutex ==
    /\ genl.pc = "of_mutex"
    /\ dp_mutex = FREE
    /\ dp_mutex' = GENL
    /\ Goto("of_input")
    /\ ofp' = [ofp EXCEPT !.chained = Append(@, Cur)]
    /\ UNCHANGED << cb, dpVars, portVars, rtnl, task, rd, rcuWait, fwd >>

\* fwd_control_input: a barrier request is answered through
\* dp_send_barrier_reply; any other request is applied to the chain and
\* may send a message of its own (an error, a reply) to the sender.
fwd_control_input ==
    /\ genl.pc = "of_input"
    /\ IF ofp.q[Cur].type = "barrier"
       THEN /\ Goto("of_barrier")
            /\ UNCHANGED ofp
       ELSE /\ genl' = [genl EXCEPT !.pc = "of_unlock", !.err = 0]
            /\ \E note \in BOOLEAN :
                 ofp' = [ofp EXCEPT
                           !.settled = @ \cup {Cur},
                           !.out = IF note
                                   THEN Append(@, [type |-> "NOTE",
                                                   xid |-> ofp.xid,
                                                   req |-> Cur,
                                                   seen |-> {}])
                                   ELSE @]
    /\ UNCHANGED << cb, dpVars, portVars, lockVars, task, rd, rcuWait, fwd >>

\* dp_send_barrier_reply: alloc_openflow_skb(..., OFPT_BARRIER_REPLY,
\* sender, &skb), which may fail, and send_openflow_skb.  seen records the
\* requests that were settled when the reply was sent.
dp_send_barrier_reply ==
    /\ genl.pc = "of_barrier"
    /\ \/ /\ genl' = [genl EXCEPT !.pc = "of_unlock", !.err = -ENOMEM]
          /\ ofp' = [ofp EXCEPT !.settled = @ \cup {Cur}]
       \/ /\ genl' = [genl EXCEPT !.pc = "of_unlock", !.err = 0]
          /\ ofp' = [ofp EXCEPT
                       !.settled = @ \cup {Cur},
                       !.out = Append(@, [type |-> "BARRIER_REPLY",
                                          xid |-> ofp.xid,
                                          req |-> Cur,
                                          seen |-> ofp.settled])]
    /\ UNCHANGED << cb, dpVars, portVars, lockVars, task, rd, rcuWait, fwd >>

\* dp_genl_openflow: mutex_unlock(&dp_mutex); return err
of_unlock ==
    /\ genl.pc = "of_unlock"
    /\ dp_mutex' = FREE
    /\ Return(genl.err)
    /\ UNCHANGED << cb, dpVars, portVars, rtnl, task, rd, rcuWait, ofp, fwd >>

\* The state after "ADD_DP 0" has succeeded, with the requests of the
\* sender still to arrive.
CtlInit ==
    /\ ofp \in {[NoOfp EXCEPT !.q = q] : q \in Plans}
    /\ fwd = NoFwd
    /\ cb = NoCb
    /\ dps = [i \in DpIdx |-> i = 0]
    /\ dpMem = [i \in DpIdx |-> IF i = 0 THEN "alloc" ELSE "none"]
    /\ chain = [i \in DpIdx |-> IF i = 0 THEN "live" ELSE "none"]
    /\ netdev = [i \in DpIdx |-> IF i = 0 THEN "registered" ELSE "none"]
    /\ local_port = [i \in DpIdx |-> IF i = 0 THEN LocalDev(0) ELSE NULL]
    /\ ports = [i \in DpIdx |-> [s \in Slots |-> NULL]]
    /\ port_list = [i \in DpIdx |-> IF i = 0 THEN << LocalDev(0) >>
                                    ELSE << >>]
    /\ nbp = [d \in Devs |-> IF d = LocalDev(0)
                             THEN [NoPort EXCEPT !.mem = "alloc", !.dp = 0,
                                                 !.port_no = OFPP_LOCAL]
                             ELSE NoPort]
    /\ br_port = [d \in Devs |-> NULL]
    /\ promisc = [d \in Devs |-> IF d = LocalDev(0) THEN 1 ELSE 0]
    /\ refcnt = [d \in Devs |-> IF d = LocalDev(0) THEN 1 ELSE 0]
    /\ modrefs = 1
    /\ dp_mutex = FREE
    /\ rtnl = FREE
    /\ genl = [IdleGenl EXCEPT !.cmd = "add_dp", !.dp = 0, !.pc = "return",
                               !.attr = U32(0, 0)]
    /\ task = [i \in DpIdx |-> IF i = 0 THEN [NoTask EXCEPT !.pc = "sleep"]
                               ELSE NoTask]
    /\ rd = [r \in Readers |-> IdleReader]
    /\ rcuWait = {}

CtlNext ==
    \/ \E idx \in DpIdx \cup {-1, MaxDp}, short \in BOOLEAN :
         dp_genl_openflow(idx, short)
    \/ of_mutex \/ fwd_control_input \/ dp_send_barrier_reply \/ of_unlock
    \/ \E i \in DpIdx :
         chain_timeout(i) \/ chain_timeout_done(i) \/ maint_sleep(i)

CtlSpec == CtlInit /\ [][CtlNext]_vars

BarrierReplies == {k \in DOMAIN ofp.out : ofp.out[k].type = "BARRIER_REPLY"}

C5_DestroyCompletes ==
    \A i \in DpIdx :
        (genl.pc = "del_dp_stop" /\ genl.dp = i)
            ~> (genl.cmd = "del_dp" /\ genl.pc = "return"
                /\ dpMem[i] = "freed")

\* A data-plane reader inside a read section works on datapath i.
Uses(r, i) ==
    /\ InSection(r)
    /\ \/ rd[r].dp = i
       \/ rd[r].p # NULL /\ nbp[rd[r].p].dp = i

\* Some port of datapath i is still linked.
PortsLinked(i) ==
    \/ port_list[i] # << >>
    \/ \E s \in Slots : ports[i][s] # NULL
    \/ \E d \in Devs : br_port[d] # NULL /\ nbp[br_port[d]].dp = i

\* The maintenance thread of datapath i exists and has not returned.
TaskRuns(i) == task[i].pc \notin {"none", "exited"}

\* del_dp has started on datapath i: it has sent the kill signal.
Destroying(i) ==
    genl.cmd = "del_dp" /\ genl.dp = i /\ task[i].sig

\* C6: while DEL_DP has destroyed the chain or freed the memory of a
\* datapath, the datapath is out of the registry and none of its ports is
\* linked; and a datapath whose chain is not live or whose memory is not
\* allocated is used by no data-plane reader, by no maintenance thread
\* and by no QUERY_DP command.
C6_ReclaimAfterUnpublishAndDrain ==
    \A i \in DpIdx :
        /\ (Destroying(i) /\ (chain[i] = "destroyed" \/ dpMem[i] = "freed"))
              => ~dps[i] /\ ~PortsLinked(i)
        /\ (chain[i] # "live" \/ dpMem[i] # "alloc")
              => /\ \A r \in Readers : ~Uses(r, i)
                 /\ ~TaskRuns(i)
                 /\ ~(genl.cmd = "query" /\ genl.dp = i
                      /\ genl.pc \in {"query_reply", "oops"})

\* C6 witness: DEL_DP has freed a datapath after deleting its local port
\* and the port of an Ethernet interface.
C6_Witness ==
    \E i \in DpIdx, d \in EthDevs :
        /\ genl.cmd = "del_dp" /\ genl.dp = i /\ genl.pc = "deldp_unlock"
        /\ dpMem[i] = "freed" /\ chain[i] = "destroyed"
        /\ nbp[d].mem = "freed" /\ nbp[LocalDev(i)].mem = "freed"

\* new_dp has allocated datapath i and is still constructing it, or is
\* taking it down again after a failure.
Creating(i) ==
    /\ genl.cmd = "add_dp" /\ genl.dp = i
    /\ genl.pc \notin {"new_dp_rtnl", "new_dp_mutex", "new_dp_idx",
                       "new_dp_modget", "new_dp_exists", "new_dp_alloc",
                       "err_put", "err_unlock", "new_dp_unlock", "return"}

\* C7: the registry holds datapath i exactly when the datapath exists,
\* its creation is complete and its destruction has not started.
C7_RegistryIffVisible ==
    \A i \in DpIdx :
        dps[i] <=> (dpMem[i] = "alloc" /\ ~Creating(i) /\ ~Destroying(i))

\* No trace of a datapath i is left: no port of it is linked, its local
\* interface holds no port, no reference and no promiscuity count, its
\* chain and local interface are gone and its memory is not allocated.
Unwound(i) ==
    /\ port_list[i] = << >>
    /\ nbp[LocalDev(i)].mem # "alloc"
    /\ refcnt[LocalDev(i)] = 0
    /\ promisc[LocalDev(i)] = 0
    /\ chain[i] # "live"
    /\ netdev[i] # "registered"
    /\ dpMem[i] # "alloc"

\* C8: when new_dp leaves through its error exit, it has not faulted on
\* the way, the module references match the registered datapaths, and if
\* it failed on an index that is not registered, nothing of the failed
\* datapath is left.
C8_FailedCreateUnwinds ==
    genl.cmd = "add_dp" =>
        /\ genl.pc # "oops"
        /\ genl.pc = "err_unlock" =>
             /\ modrefs = Cardinality({i \in DpIdx : dps[i]})
             /\ (genl.dp \in DpIdx /\ ~dps[genl.dp]) => Unwound(genl.dp)

\* C9: every datapath in the registry has its local port: an allocated
\* port with number OFPP_LOCAL, linked in the datapath's port_list.
C9_RegisteredHasLocalPort ==
    \A i \in DpIdx :
        dps[i] => /\ local_port[i] = LocalDev(i)
                  /\ nbp[LocalDev(i)].mem = "alloc"
                  /\ nbp[LocalDev(i)].port_no = OFPP_LOCAL
                  /\ InList(port_list[i], LocalDev(i))

\* C10: an occupied slot s of dp->ports[] holds an allocated port of that
\* datapath whose port_no is s, and no port occupies two slots.
C10_SlotHoldsItsPortNo ==
    \A i \in DpIdx, s \in Slots :
        ports[i][s] # NULL =>
            /\ nbp[ports[i][s]].mem = "alloc"
            /\ nbp[ports[i][s]].dp = i
            /\ nbp[ports[i][s]].port_no = s
            /\ \A t \in Slots : t # s => ports[i][t] # ports[i][s]

\* C10 witness: after ports were deleted and added again, the Ethernet
\* interfaces sit in the slots in the opposite order.
C10_Witness ==
    \E i \in DpIdx :
        /\ ports[i][1] = 2 /\ ports[i][2] = 1
        /\ genl.pc = "return"

\* ------------------------------------------------------------------------
\* Port membership
\* ------------------------------------------------------------------------
Slotted(i, d) == \E s \in Slots : ports[i][s] = d

\* No command handler is inside its dp_mutex section, where new_nbp (lines
\* 389-403) and dp_del_switch_port (lines 448-466) link and unlink ports.
Settled == dp_mutex # GENL

\* C11 (as stated): in every state a port is in port_list if and only if
\* some slot of the ports table holds it, the local port included.
C11_ListedIffSlotted ==
    \A i \in DpIdx, d \in Devs :
        InList(port_list[i], d) <=> Slotted(i, d)

\* C11 (amended): whenever no command handler holds dp_mutex, a port of an
\* existing datapath is in port_list if and only if a slot of the ports
\* table holds it or it is dp->local_port, which has no slot.
C11_ListedIffSlottedOrLocal ==
    Settled =>
        \A i \in DpIdx, d \in Devs :
            dpMem[i] = "alloc" =>
                (InList(port_list[i], d) <=>
                    (Slotted(i, d) \/ d = local_port[i]))

\* C11 witness: after a port was deleted, a datapath lists a numbered port
\* and its local port, and one slot is free again.
C11_Witness ==
    \E i \in DpIdx :
        /\ genl.cmd = "del_port" /\ genl.pc = "return" /\ genl.err = 0
        /\ Len(port_list[i]) = 2
        /\ ports[i][1] = NULL /\ ports[i][2] # NULL

\* ------------------------------------------------------------------------
\* Attaching an interface that is already attached
\* ------------------------------------------------------------------------
\* The places that hold interface d as a port: slots of ports[] and
\* members of port_list, over all datapaths.
SlotsOf(d) == {x \in DpIdx \X Slots : ports[x[1]][x[2]] = d}
ListsOf(d) == {i \in DpIdx : InList(port_list[i], d)}

AttachedOnce ==
    \A d \in EthDevs :
        /\ Cardinality(SlotsOf(d)) <= 1
        /\ Cardinality(ListsOf(d)) <= 1
        /\ \A i \in DpIdx :
             Len(SelectSeq(port_list[i], LAMBDA x : x = d)) <= 1

\* Between commands an Ethernet interface carries one reference and one
\* promiscuity count if it is attached and none otherwise.
CountsFollowBinding ==
    Settled =>
        \A d \in EthDevs :
            /\ refcnt[d] = (IF br_port[d] # NULL THEN 1 ELSE 0)
            /\ promisc[d] = (IF br_port[d] # NULL THEN 1 ELSE 0)

\* add_switch_port is about to run, or new_nbp is about to run for it, on
\* an Ethernet interface that is already attached.
BusyAdd ==
    /\ genl.cmd = "add_port"
    /\ genl.pc \in {"add_switch_port", "nbp_check"}
    /\ genl.dev \in EthDevs
    /\ br_port[genl.dev] # NULL

\* A step of add_switch_port on an attached interface changes no port
\* structure and no promiscuity count, and leaves with EBUSY.
BusyAddStep ==
    (BusyAdd /\ genl' # genl) =>
        /\ UNCHANGED << cb, ports, port_list, nbp, br_port, promisc >>
        /\ genl'.pc = "nbp_check" \/ genl'.err = -EBUSY

\* C12: no Ethernet interface is attached more than once over all
\* datapaths; ADD_PORT of an attached interface fails with EBUSY and
\* changes no ports table, port_list, promiscuity or reference count.
C12_AttachedOnceAndBusy ==
    /\ [](AttachedOnce /\ CountsFollowBinding)
    /\ [][BusyAddStep]_vars

\* ------------------------------------------------------------------------
\* ADD_DP: the choice of the datapath index
\* ------------------------------------------------------------------------
\* The DP_IDX attribute names an index in [0, DP_MAX).
InRange(attr) == attr # ABSENT /\ attr[1] = 0 /\ attr[2] < MaxDp

\* The result of an ADD_DP that has returned, as far as the request alone
\* decides it.
AddDpResult ==
    (genl.cmd = "add_dp" /\ genl.pc = "return") =>
        /\ (genl.attr = ABSENT /\ ~genl.named) => genl.err = -EINVAL
        /\ (genl.attr # ABSENT /\ ~InRange(genl.attr)) => genl.err = -EINVAL
        /\ (InRange(genl.attr) /\ genl.err = 0) => genl.dp = genl.attr[2]

\* The steps of new_dp that decide the index, and the exits they take.
AddDpStep ==
    (genl.cmd = "add_dp" /\ genl' # genl) =>
        /\ (genl.pc = "new_dp_idx" /\ genl.attr = ABSENT) =>
             IF \A i \in DpIdx : dps[i]
             THEN genl'.err = -EINVAL /\ genl'.pc = "err_unlock"
             ELSE /\ genl'.dp \in DpIdx /\ ~dps[genl'.dp]
                  /\ \A j \in DpIdx : j < genl'.dp => dps[j]
        /\ (genl.pc = "new_dp_exists" /\ dps[genl.dp]) =>
             genl'.err = -EEXIST /\ genl'.pc = "err_put"
        /\ genl.pc \in {"new_dp_rtnl", "new_dp_mutex", "new_dp_idx",
                        "new_dp_modget", "new_dp_exists", "err_put",
                        "err_unlock"} =>
             UNCHANGED << cb, dps, dpMem, chain, netdev, local_port, portVars,
                          task >>
        /\ genl.pc = "new_dp_publish" => dps' = [dps EXCEPT ![genl.dp] = TRUE]

\* C13: ADD_DP without an id takes the smallest free id; it fails with
\* EEXIST when the id is taken, with EINVAL when the id is outside
\* [0, DP_MAX), when neither id nor name is given and when no id is free;
\* a failing ADD_DP changes neither the registry nor a datapath.
C13_AddDpIndex ==
    /\ [](AddDpResult /\ (Settled => modrefs = Cardinality({i \in DpIdx : dps[i]})))
    /\ [][AddDpStep]_vars

\* ------------------------------------------------------------------------
\* ADD_PORT followed by DEL_PORT
\* ------------------------------------------------------------------------
\* A DEL_PORT has succeeded on the interface that the command before it,
\* a successful ADD_PORT, attached.
AddThenDel ==
    /\ genl.cmd = "del_port" /\ genl.pc = "return" /\ genl.err = 0
    /\ genl.pre # NoPre

\* C14: ADD_PORT of an interface followed by DEL_PORT of the same interface
\* leaves the datapath with the slots, the port_list (members and order)
\* and the FEATURES_REPLY port list that it had before the ADD_PORT.
C14_AddThenDelRestores ==
    AddThenDel =>
        /\ ports[genl.dp] = genl.pre.ports
        /\ port_list[genl.dp] = genl.pre.port_list
        /\ fill_features_reply(genl.dp) = genl.pre.features

\* C14 witness: the pair ran on a datapath whose slot 1 was free below an
\* occupied slot 2, so the added port took slot 1 and the head of the list.
C14_Witness ==
    /\ AddThenDel
    /\ genl.pre.ports[1] = NULL /\ genl.pre.ports[2] # NULL
    /\ Len(genl.pre.port_list) = 2

\* ------------------------------------------------------------------------
\* The forwarding output path: dp_output_port, output_all, dp_xmit_skb and
\* dp_output_control acting on one frame of datapath 0.  The frame runs
\* inside an RCU read section, so the ports do not change under it.
\*
\* fwd.via is the function the frame entered by, fwd.dev is skb->dev (the
\* ingress device, or NULL), fwd.len is skb->len, fwd.ctl_max the max_len
\* that dp_output_control is called with;
\* calls lists the dp_output_port calls that output_all makes, xmit the
\* frames handed to dp_xmit_skb or dp_dev_recv, pin the PACKET_IN messages
\* sent, freed the buffers dropped with kfree_skb; a buffer is "orig" (the
\* skb passed in) or "clone" (a skb_clone of it).
\* ------------------------------------------------------------------------
Flags == {"NO_FLOOD", "NO_FWD"}

\* An unsigned 32-bit value holding the integer n, n wrapping below zero.
ToU32(n) ==
    IF n < 0 THEN U32(65536 + (n \div 65536), n % 65536)
    ELSE U32(n \div 65536, n % 65536)

Gt32(a, b) == a[1] > b[1] \/ (a[1] = b[1] /\ a[2] > b[2])

\* packet_length: unsigned length = skb->len - ETH_HLEN, less VLAN_HLEN
\* when skb->protocol is ETH_P_8021Q.
packet_length(len, tagged) ==
    ToU32(len - ETH_HLEN - (IF tagged THEN VLAN_HLEN ELSE 0))

\* htons() of a length: the low 16 bits.
htons(n) == n % 65536

\* Ledger of the frame and its clones: the original is buffer 0, the k-th
\* skb_clone of output_all buffer k; each kfree_skb, dev_queue_xmit,
\* dp_dev_recv or acceptance by the flow tables of a buffer is entered.
Consumed(f, buf, how) ==
    [f EXCEPT !.consumed = Append(@, [id |-> IF buf = "orig" THEN 0
                                             ELSE f.clones,
                                      how |-> how])]

Dropped(f, buf, e) ==
    [Consumed(f, buf, "kfree_skb") EXCEPT !.freed = @ \cup {buf}, !.ret = e]

\* dp_xmit_skb on buffer buf with skb->dev = d: the MTU test, then
\* dev_queue_xmit.  skb->dev->br_port->dp is read first; a NULL br_port is
\* a fault.
xmit_skb(f, buf, d) ==
    IF br_port[d] = NULL
    THEN [f EXCEPT !.pc = "oops"]
    ELSE IF Gt32(packet_length(f.len, f.tagged), ToU32(Mtu)) /\ ~f.gso
    THEN [Consumed(f, buf, "kfree_skb") EXCEPT
            !.xmit = Append(@, [dev |-> d, buf |-> buf, ret |-> -E2BIG]),
            !.freed = @ \cup {buf}, !.ret = -E2BIG]
    ELSE [Consumed(f, buf, "dev_queue_xmit") EXCEPT
            !.xmit = Append(@, [dev |-> d, buf |-> buf, ret |-> f.len]),
            !.ret = f.len]

\* Variant of no_fwd that never honours OFPPC_NO_FWD.
no_fwd_never(p, ignore_no_fwd) == FALSE

\* The test p->config & OFPPC_NO_FWD && !ignore_no_fwd of dp_output_port.
no_fwd(p, ignore_no_fwd) == "NO_FWD" \in nbp[p].config /\ ~ignore_no_fwd

\* dp_output_port, case OFPP_LOCAL and case 0 ... DP_MAX_PORTS - 1, and
\* the bad_port exit.
output_to_port(f, buf, out_port, ignore_no_fwd) ==
    IF out_port = OFPP_LOCAL
    THEN [Consumed(f, buf, "dp_dev_recv") EXCEPT
            !.xmit = Append(@, [dev |-> LocalDev(0), buf |-> buf,
                                ret |-> f.len]),
            !.ret = f.len]
    ELSE IF out_port \in 0 .. (MaxPorts - 1)
    THEN LET p == IF out_port \in Slots THEN ports[0][out_port] ELSE NULL IN
           IF p = NULL THEN Dropped(f, buf, -ENOENT)
           ELSE IF p = f.dev THEN Dropped(f, buf, -EINVAL)
           ELSE IF no_fwd(p, ignore_no_fwd)
           THEN Dropped(f, buf, 0)
           ELSE xmit_skb(f, buf, p)
    ELSE Dropped(f, buf, -ENOENT)

Finished(f) == IF f.pc = "oops" THEN f ELSE [f EXCEPT !.pc = "done"]

\* do_output, the action executor's Output(port_no, max_len): CONTROLLER
\* goes to dp_output_control with the action's max_len, every other port
\* to dp_output_port.
do_output ==
    /\ fwd.pc = "do_output"
    /\ fwd' = IF fwd.out_port = OFPP_CONTROLLER
              THEN [fwd EXCEPT !.pc = "dp_output_control",
                               !.ctl_max = fwd.max_len]
              ELSE [fwd EXCEPT !.pc = "dp_output_port"]
    /\ UNCHANGED << cb, dpVars, portVars, lockVars, genl, task, rd, rcuWait,
                    ofp >>

\* dp_output_port up to the call it makes or the value it returns.
dp_output_port_switch ==
    /\ fwd.pc = "dp_output_port"
    /\ \/ /\ fwd.out_port = OFPP_IN_PORT
          /\ fwd' = IF fwd.dev = NULL
                    THEN Finished(Dropped(fwd, "orig", -ESRCH))
                    ELSE Finished(xmit_skb(fwd, "orig", fwd.dev))
       \/ /\ fwd.out_port = OFPP_TABLE
          /\ \E retval \in {0, 1} :
               fwd' = IF fwd.dev = NULL THEN [fwd EXCEPT !.pc = "oops"]
                      ELSE IF retval # 0
                      THEN Finished(Dropped(fwd, "orig", retval))
                      ELSE Finished([Consumed(fwd, "orig", "tables")
                                       EXCEPT !.ret = 0])
       \/ /\ fwd.out_port \in {OFPP_FLOOD, OFPP_ALL}
          /\ fwd' = [fwd EXCEPT !.pc = "output_all",
                                !.flood = (fwd.out_port = OFPP_FLOOD),
                                !.walk = port_list[0]]
       \/ /\ fwd.out_port = OFPP_CONTROLLER
          /\ fwd' = [fwd EXCEPT !.pc = "dp_output_control",
                                !.ctl_max = UINT16_MAX]
       \/ /\ fwd.out_port \notin {OFPP_IN_PORT, OFPP_TABLE, OFPP_FLOOD,
                                  OFPP_ALL, OFPP_CONTROLLER}
          /\ fwd' = Finished(output_to_port(fwd, "orig", fwd.out_port,
                                            fwd.ignore_no_fwd))
    /\ UNCHANGED << cb, dpVars, portVars, lockVars, genl, task, rd, rcuWait,
                    ofp >>

\* Variant of output_prev that passes ignore_no_fwd = 1.
output_prev_ignore(f, buf) ==
    LET g == [f EXCEPT !.calls = Append(@, [port_no |-> f.prev,
                                            buf |-> buf])]
    IN  [output_to_port(g, buf, f.prev, TRUE) EXCEPT !.ret = f.ret]

\* The dp_output_port(dp, skb, prev_port, 0) that output_all makes; its
\* return value is not looked at.
output_prev(f, buf) ==
    LET g == [f EXCEPT !.calls = Append(@, [port_no |-> f.prev,
                                            buf |-> buf])]
    IN  [output_to_port(g, buf, f.prev, FALSE) EXCEPT !.ret = f.ret]

\* Variant of disabled that applies the mask to OFPP_ALL as well.
disabled_always(f, p) == "NO_FLOOD" \in nbp[p].config

\* The disable mask of output_all: OFPPC_NO_FLOOD when flood is set.
disabled(f, p) == f.flood /\ "NO_FLOOD" \in nbp[p].config

\* Variant of skipped that does not leave out the ingress device.
skipped_mask_only(f, p) == disabled(f, p)

\* Whether output_all skips port p: the ingress device or a masked port.
skipped(f, p) == f.dev = p \/ disabled(f, p)

\* One round of the list_for_each_entry_rcu loop of output_all.
output_all ==
    /\ fwd.pc = "output_all"
    /\ fwd.walk # << >>
    /\ LET p == Head(fwd.walk)
           next == [fwd EXCEPT !.walk = Tail(@)]
       IN
       IF skipped(fwd, p)
       THEN fwd' = next
       ELSE IF fwd.prev = -1
       THEN fwd' = [next EXCEPT !.prev = nbp[p].port_no]
       ELSE \/ fwd' = Finished(Dropped(fwd, "orig", -ENOMEM))
            \/ fwd' = [output_prev([next EXCEPT !.clones = @ + 1], "clone")
                         EXCEPT !.prev = nbp[p].port_no]
    /\ UNCHANGED << cb, dpVars, portVars, lockVars, genl, task, rd, rcuWait,
                    ofp >>

\* The end of output_all: the skb itself goes to prev_port, or is freed.
output_all_end ==
    /\ fwd.pc = "output_all"
    /\ fwd.walk = << >>
    /\ fwd' = IF fwd.prev # -1
              THEN Finished([output_prev(fwd, "orig") EXCEPT !.ret = 0])
              ELSE Finished(Dropped(fwd, "orig", 0))
    /\ UNCHANGED << cb, dpVars, portVars, lockVars, genl, task, rd, rcuWait,
                    ofp >>

\* total_len of the PACKET_IN that dp_output_control builds.
total_len(len) == htons(len)

\* Variant of fwd_len that copies the whole frame.
fwd_len_whole(len, buffered, max_len) == len

\* fwd_len, the number of payload bytes dp_output_control copies.
fwd_len(len, buffered, max_len) ==
    IF buffered /\ max_len < len THEN max_len ELSE len

\* The size test of alloc_openflow_skb; sizeof(struct ofp_header) is 8.
message_too_large(openflow_len) == openflow_len + 8 > UINT16_MAX

\* dp_output_control: save the skb, build the PACKET_IN and send it.
\* fwd.alloc tells how alloc_openflow_skb ended: the message was too
\* large, genlmsg_new had no memory, or the message was built.
dp_output_control_skb ==
    /\ fwd.pc = "dp_output_control"
    /\ LET n == fwd_len(fwd.len, fwd.buffered, fwd.ctl_max)
           opi_len == 18 + n
           in_port == IF fwd.dev # NULL /\ br_port[fwd.dev] # NULL
                      THEN nbp[br_port[fwd.dev]].port_no
                      ELSE OFPP_LOCAL
           f == [fwd EXCEPT !.opi_len = opi_len]
       IN
       IF message_too_large(opi_len)
       THEN fwd' = Finished([Dropped(f, "orig", -ENOMEM) EXCEPT
                               !.alloc = "too_large"])
       ELSE \/ fwd' = Finished([Dropped(f, "orig", -ENOMEM) EXCEPT
                                  !.alloc = "nomem"])
            \/ fwd' = Finished(
                 [Dropped(f, "orig", 0) EXCEPT
                    !.alloc = "ok",
                    !.pin = Append(@, [buffered |-> fwd.buffered,
                                       total_len |-> total_len(fwd.len),
                                       in_port |-> in_port,
                                       reason |-> "ACTION",
                                       data |-> n])])
    /\ UNCHANGED << cb, dpVars, portVars, lockVars, genl, task, rd, rcuWait,
                    ofp >>

\* The orders in which the devices of A can stand in a list.
Orders(A) ==
    {s \in [1 .. Cardinality(A) -> A] : \A i, j \in DOMAIN s :
                                           i # j => s[i] # s[j]}

\* A frame that has not yet been given to the output path.
NewFrame == [pc |-> "dp_output_port", via |-> "dp_output_port",
             dev |-> NULL, len |-> 64,
             tagged |-> FALSE, gso |-> FALSE, out_port |-> 0,
             max_len |-> 128, ignore_no_fwd |-> FALSE, buffered |-> TRUE,
             ctl_max |-> 0, flood |-> FALSE, walk |-> << >>, prev |-> -1,
             calls |-> << >>, xmit |-> << >>, clones |-> 0, freed |-> {},
             opi_len |-> 0, alloc |-> "none", pin |-> << >>, ret |-> 0,
             consumed |-> << >>]

\* The port numbers an output action is tried with.
OutPorts ==
    (0 .. MaxPorts) \cup {OFPP_IN_PORT, OFPP_TABLE, OFPP_FLOOD, OFPP_ALL,
                          OFPP_CONTROLLER, OFPP_LOCAL, OFPP_NONE}

\* The frame lengths tried against the MTU and the 16-bit fields.
Lens ==
    {0, ETH_HLEN - 1, ETH_HLEN, ETH_HLEN + VLAN_HLEN - 1, 64,
     Mtu + ETH_HLEN, Mtu + ETH_HLEN + 1, Mtu + ETH_HLEN + VLAN_HLEN,
     Mtu + ETH_HLEN + VLAN_HLEN + 1, Mtu + 2 * ETH_HLEN,
     Mtu + 2 * ETH_HLEN + 1, UINT16_MAX - 26, UINT16_MAX - 25,
     UINT16_MAX - 18, UINT16_MAX - 17, UINT16_MAX, UINT16_MAX + 1,
     UINT16_MAX + 65}

\* Frames that try every port number on every set of ports.
PortFrames(A) ==
    {[NewFrame EXCEPT !.pc = via, !.via = via, !.dev = d, !.out_port = o,
                      !.ignore_no_fwd = ign] :
        via \in {"do_output", "dp_output_port"},
        d \in A \cup {LocalDev(0), NULL}, o \in OutPorts,
        ign \in BOOLEAN}

\* Frames that try every length on the way to a port, to all ports and to
\* the controller.
LenFrames(A) ==
    {[NewFrame EXCEPT !.pc = via, !.via = via, !.dev = d, !.out_port = o,
                      !.len = n, !.tagged = t, !.gso = g, !.max_len = m,
                      !.buffered = b] :
        via \in {"do_output", "dp_output_port"},
        d \in {x \in A : x = 1}, o \in {2, OFPP_ALL, OFPP_CONTROLLER},
        n \in Lens, t \in BOOLEAN, g \in BOOLEAN,
        m \in {0, 128, UINT16_MAX}, b \in BOOLEAN}

\* Datapath 0 exists, the devices of A are its ports (device d in slot d,
\* listed in the order ord ahead of the local port) with the flags cfg set
\* by OFPT_PORT_MOD, and a frame arrives.
FwdInit ==
    \E A \in SUBSET (EthDevs \cap Slots) :
    \E ord \in Orders(A) :
    \E cfg \in [A \cup {LocalDev(0)} -> SUBSET Flags] :
    /\ "NO_FWD" \notin cfg[LocalDev(0)]
    /\ fwd \in PortFrames(A) \cup
               (IF \A d \in A \cup {LocalDev(0)} : cfg[d] = {}
                THEN LenFrames(A) ELSE {})
    /\ cb = NoCb
    /\ ofp = NoOfp
    /\ dps = [i \in DpIdx |-> i = 0]
    /\ dpMem = [i \in DpIdx |-> IF i = 0 THEN "alloc" ELSE "none"]
    /\ chain = [i \in DpIdx |-> IF i = 0 THEN "live" ELSE "none"]
    /\ netdev = [i \in DpIdx |-> IF i = 0 THEN "registered" ELSE "none"]
    /\ local_port = [i \in DpIdx |-> IF i = 0 THEN LocalDev(0) ELSE NULL]
    /\ ports = [i \in DpIdx |-> [s \in Slots |->
                  IF i = 0 /\ s \in A THEN s ELSE NULL]]
    /\ port_list = [i \in DpIdx |-> IF i = 0 THEN ord \o << LocalDev(0) >>
                                    ELSE << >>]
    /\ nbp = [d \in Devs |->
                IF d = LocalDev(0)
                THEN [NoPort EXCEPT !.mem = "alloc", !.dp = 0,
                                    !.port_no = OFPP_LOCAL,
                                    !.config = cfg[d]]
                ELSE IF d \in A
                THEN [NoPort EXCEPT !.mem = "alloc", !.dp = 0,
                                    !.port_no = d, !.config = cfg[d],
                                    !.addSent = TRUE]
                ELSE NoPort]
    /\ br_port = [d \in Devs |-> IF d \in A THEN d ELSE NULL]
    /\ promisc = [d \in Devs |-> IF d \in A \cup {LocalDev(0)} THEN 1 ELSE 0]
    /\ refcnt = [d \in Devs |-> IF d \in A \cup {LocalDev(0)} THEN 1 ELSE 0]
    /\ modrefs = 1
    /\ dp_mutex = FREE
    /\ rtnl = FREE
    /\ genl = IdleGenl
    /\ task = [i \in DpIdx |-> IF i = 0 THEN [NoTask EXCEPT !.pc = "sleep"]
                               ELSE NoTask]
    /\ rd = [r \in Readers |-> IdleReader]
    /\ rcuWait = {}

FwdNext ==
    \/ do_output
    \/ dp_output_port_switch
    \/ output_all
    \/ output_all_end
    \/ dp_output_control_skb

FwdSpec == FwdInit /\ [][FwdNext]_vars

\* ------------------------------------------------------------------------
\* Properties of the forwarding output path (specification FwdSpec).
\* ------------------------------------------------------------------------
Flooding == fwd.pc \in {"output_all", "done"}
              /\ fwd.out_port \in {OFPP_FLOOD, OFPP_ALL}

FloodDone == fwd.pc = "done" /\ fwd.out_port \in {OFPP_FLOOD, OFPP_ALL}

\* output_all has issued a transmit on port d: it has called dp_output_port
\* with d's port number.
Issued(d) == \E k \in DOMAIN fwd.calls : fwd.calls[k].port_no = nbp[d].port_no

\* A frame has been handed to d's device (dp_xmit_skb or dp_dev_recv).
HandedTo(d) == \E k \in DOMAIN fwd.xmit : fwd.xmit[k].dev = d

\* Every clone that output_all asked for was allocated.
ClonesAllocated == fwd.ret # -ENOMEM

C15_WitnessAll ==
    /\ FloodDone /\ fwd.out_port = OFPP_ALL
    /\ fwd.dev = 1 /\ "NO_FLOOD" \in nbp[2].config /\ HandedTo(2)

\* The eligible ports of a FLOOD or ALL: the ports of port_list other than
\* the ingress port and, for FLOOD, without NO_FLOOD.
Eligible ==
    {d \in Devs : /\ InList(port_list[0], d)
                  /\ d # fwd.dev
                  /\ ~(fwd.out_port = OFPP_FLOOD /\ "NO_FLOOD" \in nbp[d].config)}

C16_WitnessNone ==
    /\ FloodDone /\ Cardinality(Eligible) = 0
    /\ Len(port_list[0]) = 3 /\ fwd.out_port = OFPP_FLOOD

\* A finished Output to a port number that is not a virtual port.
NumericDone ==
    /\ fwd.pc = "done"
    /\ fwd.out_port \notin {OFPP_IN_PORT, OFPP_TABLE, OFPP_FLOOD, OFPP_ALL,
                            OFPP_CONTROLLER, OFPP_LOCAL}

\* The port in the slot of the Output's port number, NULL if the slot is
\* empty.
Target == IF fwd.out_port \in Slots THEN ports[0][fwd.out_port] ELSE NULL

DroppedWith(e) == fwd.ret = e /\ fwd.xmit = << >> /\ fwd.freed = {"orig"}

\* C17: an Output to a port number in [0, DP_MAX_PORTS) hands the frame to
\* dp_xmit_skb for that port's device, except that it is dropped with
\* EINVAL if the port is the frame's ingress device and dropped silently
\* (result 0, no transmit) if the port's config has NO_FWD and
\* ignore_no_fwd is not set; in that range with the slot empty, and for any
\* number outside the range that is not a virtual port, it is dropped with
\* ENOENT.
C17_OutputToPort ==
    NumericDone =>
      IF fwd.out_port \notin 0 .. (MaxPorts - 1) \/ Target = NULL
      THEN DroppedWith(-ENOENT)
      ELSE IF Target = fwd.dev
      THEN DroppedWith(-EINVAL)
      ELSE IF "NO_FWD" \in nbp[Target].config /\ ~fwd.ignore_no_fwd
      THEN DroppedWith(0)
      ELSE /\ Len(fwd.xmit) = 1
           /\ fwd.xmit[1].dev = Target /\ fwd.xmit[1].buf = "orig"
           /\ fwd.ret = fwd.xmit[1].ret
           /\ fwd.ret \in {fwd.len, -E2BIG}

C17_Witness ==
    /\ NumericDone /\ fwd.out_port = 2 /\ Target = 2
    /\ "NO_FWD" \in nbp[2].config /\ fwd.ignore_no_fwd
    /\ fwd.dev = 1 /\ fwd.xmit # << >> /\ fwd.ret = fwd.len

\* The silent drop, the drop of a frame sent back to its ingress port, and
\* the drop of a frame sent to a port number above the range.
C17_WitnessDrops ==
    /\ NumericDone
    /\ \/ fwd.ret = 0 /\ fwd.xmit = << >> /\ Target # NULL
       \/ fwd.ret = -EINVAL /\ "NO_FWD" \in nbp[Target].config
       \/ fwd.ret = -ENOENT /\ fwd.out_port = MaxPorts

\* An Output action to CONTROLLER whose PACKET_IN was sent.
ActionToController ==
    /\ fwd.pc = "done" /\ fwd.via = "do_output"
    /\ fwd.out_port = OFPP_CONTROLLER
    /\ fwd.pin # << >>

Min(a, b) == IF a < b THEN a ELSE b

Policed == {k \in DOMAIN fwd.xmit : fwd.xmit[k].dev \in EthDevs /\ ~fwd.gso}

\* C19: Transmit policy.  A frame that is not a GSO aggregate is dropped
\* with E2BIG exactly when frame.len - ETH_HLEN - (14 if VLAN-tagged else
\* 0), computed without wrap-around, exceeds the interface MTU.
C19_TransmitPolicy ==
    \A k \in Policed :
      fwd.xmit[k].ret = -E2BIG
        <=> fwd.len - ETH_HLEN - (IF fwd.tagged THEN 14 ELSE 0) > Mtu

\* What dp_xmit_skb does: the deduction for a tag is VLAN_HLEN and the
\* length is an unsigned 32-bit value.
C19_TransmitPolicyWrapping ==
    \A k \in Policed :
      fwd.xmit[k].ret = -E2BIG
        <=> \/ fwd.len - ETH_HLEN - (IF fwd.tagged THEN VLAN_HLEN ELSE 0) > Mtu
            \/ fwd.len - ETH_HLEN - (IF fwd.tagged THEN VLAN_HLEN ELSE 0) < 0

\* An untagged frame shorter than an Ethernet header is dropped with E2BIG.
C19_ShortFrameDropped ==
    /\ fwd.pc = "done" /\ fwd.out_port = 2 /\ ~fwd.gso /\ ~fwd.tagged
    /\ fwd.len = ETH_HLEN - 1
    /\ fwd.xmit # << >> /\ fwd.ret = -E2BIG

\* C20: Packet-in truncation.  For every frame length and max_len, the
\* payload of a PACKET_IN is min(frame_len, max_len) bytes when a buffer id
\* was allocated and the whole frame when none was, and in both cases its
\* total_len field equals the original frame length.
C20_PacketInTruncation ==
    \A k \in DOMAIN fwd.pin :
      /\ fwd.pin[k].data = IF fwd.pin[k].buffered
                           THEN Min(fwd.len, fwd.ctl_max) ELSE fwd.len
      /\ fwd.pin[k].total_len = fwd.len

\* A saved frame of 65536 bytes is reported with total_len 0.
C20_TotalLenWrapped ==
    /\ fwd.pc = "done" /\ fwd.len = UINT16_MAX + 1 /\ fwd.buffered
    /\ fwd.pin # << >> /\ fwd.pin[1].total_len = 0 /\ fwd.pin[1].data = 128

\* dp_output_control has asked alloc_openflow_skb for a PACKET_IN.
Constructed == fwd.pc = "done" /\ fwd.alloc # "none"

\* C21: an outbound OpenFlow message whose total length (header included)
\* exceeds 65535 bytes is rejected at construction with E2BIG, and one
\* whose total length is at most 65535 bytes is not rejected for its size.
C21_MessageSizeLimit ==
    Constructed =>
      /\ fwd.opi_len > UINT16_MAX => fwd.alloc = "too_large" /\ fwd.ret = -E2BIG
      /\ fwd.opi_len <= UINT16_MAX => fwd.alloc # "too_large"

\* What alloc_openflow_skb does: the limit is 65535 less the size of the
\* header, and the caller reports ENOMEM.
C21_MessageSizeLimitCode ==
    Constructed =>
      /\ fwd.opi_len > UINT16_MAX - 8
           => fwd.alloc = "too_large" /\ fwd.ret = -ENOMEM /\ fwd.pin = << >>
      /\ fwd.opi_len <= UINT16_MAX - 8 => fwd.alloc # "too_large"

\* A PACKET_IN of 65528 bytes in all is rejected for its size.
C21_RejectedBelowLimit ==
    /\ Constructed /\ fwd.opi_len = UINT16_MAX - 7
    /\ fwd.alloc = "too_large" /\ fwd.ret = -ENOMEM

\* ------------------------------------------------------------------------
\* OFPT_PORT_MOD: dp_update_port_flags on datapath 0.  A hardware address is
\* named by the device that has it.
\* ------------------------------------------------------------------------
\* The requests tried: any port number, the address of any device, any
\* mask and config over the flags.
PortMods ==
    [port_no : (0 .. MaxPorts) \cup {OFPP_LOCAL},
     hw_addr : Devs, mask : SUBSET Flags, config : SUBSET Flags]

\* Variant of masked_config that writes the request's config whole.
unmasked_config(config, opm) == opm.config

\* p->config &= ~config_mask; p->config |= ntohl(opm->config) & config_mask.
masked_config(config, opm) ==
    (config \ opm.mask) \cup (opm.config \cap opm.mask)

dp_update_port_flags(opm) ==
    /\ LET p == IF opm.port_no < MaxPorts
                THEN (IF opm.port_no \in Slots THEN ports[0][opm.port_no]
                      ELSE NULL)
                ELSE IF opm.port_no = OFPP_LOCAL THEN local_port[0]
                ELSE NULL
       IN
       IF p = NULL \/ opm.hw_addr # p
       THEN /\ ofp' = [ofp EXCEPT !.opm = opm, !.ret = -1, !.was = nbp]
            /\ nbp' = nbp
       ELSE /\ ofp' = [ofp EXCEPT !.opm = opm, !.ret = 0, !.was = nbp]
            /\ nbp' = IF opm.mask # {}
                      THEN [nbp EXCEPT ![p].config = masked_config(@, opm)]
                      ELSE nbp
    /\ UNCHANGED << cb, dpVars, ports, port_list, br_port, promisc, refcnt,
                    lockVars, genl, task, rd, rcuWait, fwd >>

\* Datapath 0 exists with the devices of A as its ports, no flag set.
ModInit ==
    \E A \in SUBSET (EthDevs \cap Slots) :
    /\ ofp = NoOfp
    /\ fwd = NoFwd
    /\ cb = NoCb
    /\ dps = [i \in DpIdx |-> i = 0]
    /\ dpMem = [i \in DpIdx |-> IF i = 0 THEN "alloc" ELSE "none"]
    /\ chain = [i \in DpIdx |-> IF i = 0 THEN "live" ELSE "none"]
    /\ netdev = [i \in DpIdx |-> IF i = 0 THEN "registered" ELSE "none"]
    /\ local_port = [i \in DpIdx |-> IF i = 0 THEN LocalDev(0) ELSE NULL]
    /\ ports = [i \in DpIdx |-> [s \in Slots |->
                  IF i = 0 /\ s \in A THEN s ELSE NULL]]
    /\ port_list = [i \in DpIdx |->
                      IF i = 0
                      THEN [k \in 1 .. Cardinality(A) |->
                              CHOOSE d \in A :
                                Cardinality({e \in A : e > d}) = k - 1]
                           \o << LocalDev(0) >>
                      ELSE << >>]
    /\ nbp = [d \in Devs |->
                IF d = LocalDev(0)
                THEN [NoPort EXCEPT !.mem = "alloc", !.dp = 0,
                                    !.port_no = OFPP_LOCAL]
                ELSE IF d \in A
                THEN [NoPort EXCEPT !.mem = "alloc", !.dp = 0,
                                    !.port_no = d, !.addSent = TRUE]
                ELSE NoPort]
    /\ br_port = [d \in Devs |-> IF d \in A THEN d ELSE NULL]
    /\ promisc = [d \in Devs |-> IF d \in A \cup {LocalDev(0)} THEN 1 ELSE 0]
    /\ refcnt = [d \in Devs |-> IF d \in A \cup {LocalDev(0)} THEN 1 ELSE 0]
    /\ modrefs = 1
    /\ dp_mutex = FREE
    /\ rtnl = FREE
    /\ genl = IdleGenl
    /\ task = [i \in DpIdx |-> IF i = 0 THEN [NoTask EXCEPT !.pc = "sleep"]
                               ELSE NoTask]
    /\ rd = [r \in Readers |-> IdleReader]
    /\ rcuWait = {}

ModNext == \E opm \in PortMods : dp_update_port_flags(opm)

ModSpec == ModInit /\ [][ModNext]_vars

\* The port a port-mod names: the port in the slot of its number, the
\* local port for OFPP_LOCAL, none otherwise.
Named(opm) ==
    IF opm.port_no \in Slots THEN ports[0][opm.port_no]
    ELSE IF opm.port_no = OFPP_LOCAL THEN local_port[0]
    ELSE NULL

Rejected(opm) == Named(opm) = NULL \/ opm.hw_addr # Named(opm)

\* C22: a port-mod that names an unattached port, or whose hw_addr differs
\* from the hardware address of the port's device, fails and changes no
\* port; an accepted port-mod changes only the config bits selected by its
\* mask, on the named port.
C22_PortMod ==
    ofp.opm # NoOpm =>
      IF Rejected(ofp.opm)
      THEN ofp.ret < 0 /\ nbp = ofp.was
      ELSE /\ ofp.ret = 0
           /\ \A d \in Devs :
                /\ d # Named(ofp.opm) => nbp[d] = ofp.was[d]
                /\ d = Named(ofp.opm) =>
                     /\ nbp[d] = [ofp.was[d] EXCEPT !.config = nbp[d].config]
                     /\ \A b \in Flags \ ofp.opm.mask :
                          b \in nbp[d].config <=> b \in ofp.was[d].config
                     /\ \A b \in ofp.opm.mask :
                          b \in nbp[d].config <=> b \in ofp.opm.config

C22_Witness ==
    /\ ofp.opm # NoOpm /\ ~Rejected(ofp.opm)
    /\ ofp.opm.port_no = 2 /\ ofp.opm.mask = {"NO_FWD"}
    /\ ofp.opm.config = {"NO_FLOOD"}
    /\ ofp.was[2].config = {"NO_FLOOD", "NO_FWD"}
    /\ nbp[2].config = {"NO_FLOOD"}

\* A port-mod with a stale hardware address.
C22_WitnessRejected ==
    /\ ofp.opm # NoOpm /\ Named(ofp.opm) = 2 /\ ofp.opm.hw_addr = 1
    /\ ofp.opm.mask = Flags /\ ofp.ret = -1

\* ------------------------------------------------------------------------
\* Statistics dumps: dp_genl_openflow_dumpit and dp_genl_openflow_done, as
\* netlink calls them for one well-formed OFPT_STATS_REQUEST on datapath 0:
\* the dump function again and again while it returns a positive length,
\* then the done function once.  Lengths are counted in records: a
\* struct ofp_port_stats is 1, a flow record is the flow's len.
\*
\* cb.args0 is cb->args[0] and cb.state cb->args[4] ("NULL", "body" for a
\* pointer into the request, or "heap" for the kmalloc'ed state, whose
\* life is cb.heap); cb.frags lists the STATS_REPLY messages sent, cb.errs
\* the OFPT_ERROR messages, cb.done the states the category's done function
\* was applied to.
\* ------------------------------------------------------------------------
StatTypes == {"DESC", "FLOW", "AGGREGATE", "TABLE", "PORT", "VENDOR", "QUEUE"}

\* stats[type].dump is set: the categories of the stats[] array.
InArray(type) == type \in {"DESC", "FLOW", "AGGREGATE", "TABLE", "PORT"}

\* The init and done members of stats[] and stats_vendor.
HasInit(type) == type \in {"FLOW", "AGGREGATE", "PORT", "VENDOR"}

HasDone(type) == type \in {"FLOW", "PORT", "VENDOR"}

\* table->iterate of the chain, from position pos of the flows of one
\* table: the callback is called for each matching flow in turn and stops
\* the walk, with the position kept, when it returns nonzero.
\* flow_stats_dump_callback returns 1 when the record does not fit in what
\* is left of the buffer and appends it otherwise.
RECURSIVE iterate(_, _, _, _, _, _)
iterate(flows, t, pos, used, allocated, body) ==
    IF pos > Len(flows)
    THEN [error |-> 0, position |-> 1, bytes_used |-> used, body |-> body]
    ELSE IF ~flows[pos].match
    THEN iterate(flows, t, pos + 1, used, allocated, body)
    ELSE IF flows[pos].len + used > allocated
    THEN [error |-> 1, position |-> pos, bytes_used |-> used, body |-> body]
    ELSE iterate(flows, t, pos + 1, used + flows[pos].len, allocated,
                 Append(body, [table_id |-> t, pos |-> pos]))

\* Variant of AllTables for a request that is never taken to be for all
\* tables.
OneTable(table_id) == FALSE

\* rq->table_id == 0xff: the request is for all tables.
AllTables(table_id) == table_id = 255

\* flow_stats_dump: the while loop over the tables of the chain, from
\* s->table_idx and s->position; table indexes start at 0.
RECURSIVE flow_stats_loop(_, _, _, _, _, _, _)
flow_stats_loop(tables, table_id, idx, pos, used, allocated, body) ==
    IF idx < Len(tables) /\ (AllTables(table_id) \/ table_id = idx)
    THEN LET r == iterate(tables[idx + 1], idx, pos, used, allocated, body)
         IN  IF r.error # 0
             THEN r @@ [table_idx |-> idx]
             ELSE flow_stats_loop(tables, table_id, idx + 1, 1,
                                  r.bytes_used, allocated, r.body)
    ELSE [error |-> 0, position |-> pos, bytes_used |-> used,
          body |-> body, table_idx |-> idx]

\* Variant of flow_stats_result that asks for another poll whenever the
\* walk stopped.
flow_stats_result_more(error, bytes_used) == IF error = 0 THEN 0 ELSE 1

\* flow_stats_dump: its return value, from the error of the walk and the
\* bytes it wrote.
flow_stats_result(error, bytes_used) ==
    IF error = 0 THEN 0 ELSE IF bytes_used # 0 THEN 1 ELSE -ENOMEM

\* flow_stats_dump: what it returns and leaves in the state and the body.
flow_stats_dump(c) ==
    LET r == flow_stats_loop(c.tables, c.rq.table_id, c.table_idx,
                             c.position, 0, c.buf, << >>)
        err == flow_stats_result(r.error, r.bytes_used)
    IN  [err |-> err, body |-> r.body,
         cb |-> [c EXCEPT !.table_idx = r.table_idx,
                          !.position = r.position]]

\* port_stats_dump, the loop over dp->ports[] from s->start_port: the
\* ports dumped and the value of i after it.
RECURSIVE port_stats_loop(_, _, _)
port_stats_loop(i, max_ports, body) ==
    IF i < MaxPorts /\ Len(body) < max_ports
    THEN port_stats_loop(i + 1, max_ports,
                         IF ports[0][i] = NULL THEN body
                         ELSE Append(body, ports[0][i]))
    ELSE [i |-> i, body |-> body]

\* Variant of port_stats_start that always begins at slot 1.
port_stats_restart(c) == 1

\* The slot the loop of port_stats_dump begins at, s->start_port.
port_stats_start(c) == c.start_port

\* port_stats_dump: what it returns and leaves in the state and the body.
port_stats_dump(c) ==
    LET max_ports == c.buf
        l == port_stats_loop(port_stats_start(c), max_ports, << >>)
        p == IF c.rq.port_no < MaxPorts
             THEN (IF c.rq.port_no \in Slots THEN ports[0][c.rq.port_no]
                   ELSE NULL)
             ELSE IF c.rq.port_no = OFPP_LOCAL THEN local_port[0]
             ELSE NULL
        body == IF c.rq.port_no = OFPP_NONE
                THEN (IF local_port[0] # NULL
                      THEN Append(l.body, local_port[0]) ELSE l.body)
                ELSE (IF p # NULL THEN << p >> ELSE << >>)
        start == IF c.rq.port_no # OFPP_NONE THEN c.start_port
                 ELSE IF local_port[0] # NULL THEN OFPP_LOCAL + 1
                 ELSE l.i
    IN  IF max_ports = 0
        THEN [err |-> -ENOMEM, body |-> << >>, cb |-> c]
        ELSE [err |-> IF Len(body) >= max_ports THEN 1 ELSE 0,
              body |-> body, cb |-> [c EXCEPT !.start_port = start]]

\* The one-message categories: desc_stats_dump, aggregate_stats_dump and
\* table_stats_dump fill one body and return 0.
one_shot_dump(c) == [err |-> 0, body |-> << c.rq.type >>, cb |-> c]

\* s->dump of the category.
stats_dump(c) ==
    CASE c.rq.type = "FLOW" -> flow_stats_dump(c)
      [] c.rq.type = "PORT" -> port_stats_dump(c)
      [] c.rq.type = "VENDOR" -> [err |-> 0, body |-> << >>, cb |-> c]
      [] OTHER -> one_shot_dump(c)

\* A netlink_callback before the first call of the dump function.  fresh
\* is history: how many fragments had been sent when the index of the
\* datapath was given to a new datapath (-1 while it has not been).
NewCb == [pc |-> "dumpit", rq |-> [type |-> "DESC", table_id |-> 255,
                                   port_no |-> OFPP_NONE],
          buf |-> 1, tables |-> << >>, args0 |-> 0, state |-> "NULL",
          heap |-> "none", table_idx |-> 0, position |-> 1,
          start_port |-> 0, frags |-> << >>, errs |-> << >>,
          done |-> << >>, ret |-> 0, fresh |-> -1]

\* netlink_dump after a call of the dump function that returned ret: the
\* message is sent and the dump goes on if ret is positive, and ends with
\* the done function otherwise.
Polled(c, ret) ==
    [c EXCEPT !.ret = ret, !.pc = IF ret > 0 THEN "dumpit" ELSE "done"]

\* dp_genl_openflow_dumpit from put_openflow_headers on: one call of the
\* category's dump function and the STATS_REPLY made of what it wrote.
\* A body longer than the buffer has been written past the end of the
\* skb: the call faults or goes on.
\* cb.frags keeps the fragments sent, the last MaxFrags of them when the
\* dump has sent more.
dumpit_reply(c) ==
    LET r == stats_dump(c)
        sent == [r.cb EXCEPT !.args0 = IF r.err = 0 THEN 2 ELSE @,
                             !.frags = Append(IF Len(@) < MaxFrags THEN @
                                              ELSE Tail(@),
                                              [type |-> c.rq.type,
                                               more |-> r.err # 0,
                                               body |-> r.body])]
    IN  IF r.err < 0 THEN {Polled(r.cb, r.err)}
        ELSE IF Len(r.body) > c.buf /\ c.rq.type = "PORT"
        THEN {Polled(sent, 1), [c EXCEPT !.pc = "oops"]}
        ELSE {Polled(sent, 1)}

\* The category's init function, with kmalloc failing or not: what it
\* returns and stores in *state.
stats_init(c) ==
    CASE c.rq.type = "FLOW" ->
           {[err |-> -ENOMEM, cb |-> c],
            [err |-> 0,
             cb |-> [c EXCEPT !.state = "heap", !.heap = "alloc",
                              !.table_idx = IF c.rq.table_id = 255 THEN 0
                                            ELSE c.rq.table_id,
                              !.position = 1]]}
      [] c.rq.type = "PORT" ->
           {[err |-> -ENOMEM, cb |-> c],
            [err |-> 0, cb |-> [c EXCEPT !.state = "heap", !.heap = "alloc",
                                         !.start_port = 1]]}
      [] c.rq.type = "AGGREGATE" ->
           {[err |-> 0, cb |-> [c EXCEPT !.state = "body"]]}
      [] c.rq.type = "VENDOR" -> {[err |-> -EINVAL, cb |-> c]}

dp_genl_openflow_dumpit ==
    /\ cb.pc = "dumpit"
    /\ IF cb.args0 = 0
       THEN IF ~dps[0]
            THEN cb' = Polled(cb, -ENOENT)
            ELSE IF cb.rq.type # "VENDOR" /\ ~InArray(cb.rq.type)
            THEN cb' = Polled([cb EXCEPT !.errs = Append(@, "BAD_STAT")],
                              -EINVAL)
            ELSE LET c == [cb EXCEPT !.args0 = 1] IN
                 IF HasInit(cb.rq.type)
                 THEN \E i \in stats_init(c) :
                        IF i.err # 0 THEN cb' = Polled(i.cb, i.err)
                        ELSE cb' \in dumpit_reply(i.cb)
                 ELSE cb' \in dumpit_reply(c)
       ELSE IF cb.args0 = 1
       THEN IF ~dps[0] THEN cb' = Polled(cb, -ENOENT)
            ELSE cb' \in dumpit_reply(cb)
       ELSE cb' = Polled(cb, 0)
    /\ UNCHANGED << dpVars, portVars, lockVars, genl, task, rd, rcuWait,
                    ofp, fwd >>

\* dp_genl_openflow_done: the category's done function on cb->args[4].
\* flow_stats_done and port_stats_done kfree it; vendor_stats_done reads
\* the vendor id through it first, a fault when it is NULL.
dp_genl_openflow_done ==
    /\ cb.pc = "done"
    /\ cb' = IF cb.args0 # 0 /\ HasDone(cb.rq.type)
             THEN IF cb.rq.type = "VENDOR" /\ cb.state = "NULL"
                  THEN [cb EXCEPT !.pc = "oops", !.done = Append(@, cb.state)]
                  ELSE [cb EXCEPT !.pc = "closed",
                                  !.done = Append(@, cb.state),
                                  !.heap = IF cb.state = "heap" THEN "freed"
                                           ELSE @]
             ELSE [cb EXCEPT !.pc = "closed"]
    /\ UNCHANGED << dpVars, portVars, lockVars, genl, task, rd, rcuWait,
                    ofp, fwd >>

\* del_dp of datapath 0 between two calls of the dump function (commands
\* and dumps exclude each other under the Generic Netlink lock).
del_dp_whole ==
    /\ cb.pc = "dumpit" /\ dps[0]
    /\ dps' = [dps EXCEPT ![0] = FALSE]
    /\ dpMem' = [dpMem EXCEPT ![0] = "freed"]
    /\ chain' = [chain EXCEPT ![0] = "destroyed"]
    /\ netdev' = [netdev EXCEPT ![0] = "destroyed"]
    /\ modrefs' = modrefs - 1
    /\ ports' = [ports EXCEPT ![0] = [s \in Slots |-> NULL]]
    /\ port_list' = [port_list EXCEPT ![0] = << >>]
    /\ nbp' = [d \in Devs |-> IF nbp[d].mem = "alloc" /\ nbp[d].dp = 0
                              THEN [NoPort EXCEPT !.mem = "freed"]
                              ELSE nbp[d]]
    /\ br_port' = [d \in Devs |-> IF nbp[d].dp = 0 THEN NULL ELSE br_port[d]]
    /\ promisc' = [d \in Devs |-> IF nbp[d].dp = 0 THEN 0 ELSE promisc[d]]
    /\ refcnt' = [d \in Devs |-> IF nbp[d].dp = 0 THEN 0 ELSE refcnt[d]]
    /\ task' = [task EXCEPT ![0] = [pc |-> "exited", sig |-> TRUE,
                                    should_stop |-> TRUE,
                                    state |-> "running"]]
    /\ UNCHANGED << cb, local_port, lockVars, genl, rd, rcuWait, ofp, fwd >>

\* The flows of the chain: up to MaxFlows flows, each with the length of
\* its record and whether the request's match and out_port select it,
\* spread over the tables at the places cut.
Flows == [len : 1 .. 2, match : BOOLEAN]

FlowSeqs == UNION {[1 .. k -> Flows] : k \in 0 .. MaxFlows}

Cuts(n) ==
    {c \in [0 .. NumTables -> 0 .. n] :
       /\ c[0] = 0 /\ c[NumTables] = n
       /\ \A i \in 1 .. NumTables : c[i - 1] <= c[i]}

TablesOf(s, c) == [i \in 1 .. NumTables |-> SubSeq(s, c[i - 1] + 1, c[i])]

\* The dumps tried: a FLOW dump of any tables, a PORT dump of any ports,
\* and one dump of each other type.
Dumps(A) ==
    {[NewCb EXCEPT !.rq.type = type] : type \in StatTypes}
    \cup {[NewCb EXCEPT !.rq.type = "PORT", !.rq.port_no = n, !.buf = b] :
            n \in {OFPP_NONE, OFPP_LOCAL, 1, MaxPorts}, b \in 0 .. MaxBuf}
    \cup IF A # {} THEN {}
         ELSE UNION {{[NewCb EXCEPT !.rq.type = "FLOW", !.rq.table_id = t,
                                    !.buf = b, !.tables = TablesOf(s, c)] :
                        t \in {255} \cup (0 .. (NumTables - 1)),
                        b \in 1 .. MaxBuf, c \in Cuts(Len(s))} :
                     s \in FlowSeqs}

\* Datapath 0 exists with the devices of A as its ports, and a dump is
\* started.
StatsInit ==
    \E A \in SUBSET (EthDevs \cap Slots) :
    /\ cb \in Dumps(A)
    /\ ofp = NoOfp
    /\ fwd = NoFwd
    /\ dps = [i \in DpIdx |-> i = 0]
    /\ dpMem = [i \in DpIdx |-> IF i = 0 THEN "alloc" ELSE "none"]
    /\ chain = [i \in DpIdx |-> IF i = 0 THEN "live" ELSE "none"]
    /\ netdev = [i \in DpIdx |-> IF i = 0 THEN "registered" ELSE "none"]
    /\ local_port = [i \in DpIdx |-> IF i = 0 THEN LocalDev(0) ELSE NULL]
    /\ ports = [i \in DpIdx |-> [s \in Slots |->
                  IF i = 0 /\ s \in A THEN s ELSE NULL]]
    /\ port_list = [i \in DpIdx |->
                      IF i = 0
                      THEN [k \in 1 .. Cardinality(A) |->
                              CHOOSE d \in A :
                                Cardinality({e \in A : e > d}) = k - 1]
                           \o << LocalDev(0) >>
                      ELSE << >>]
    /\ nbp = [d \in Devs |->
                IF d = LocalDev(0)
                THEN [NoPort EXCEPT !.mem = "alloc", !.dp = 0,
                                    !.port_no = OFPP_LOCAL]
                ELSE IF d \in A
                THEN [NoPort EXCEPT !.mem = "alloc", !.dp = 0,
                                    !.port_no = d, !.addSent = TRUE]
                ELSE NoPort]
    /\ br_port = [d \in Devs |-> IF d \in A THEN d ELSE NULL]
    /\ promisc = [d \in Devs |-> IF d \in A \cup {LocalDev(0)} THEN 1 ELSE 0]
    /\ refcnt = [d \in Devs |-> IF d \in A \cup {LocalDev(0)} THEN 1 ELSE 0]
    /\ modrefs = 1
    /\ dp_mutex = FREE
    /\ rtnl = FREE
    /\ genl = IdleGenl
    /\ task = [i \in DpIdx |-> IF i = 0 THEN [NoTask EXCEPT !.pc = "sleep"]
                               ELSE NoTask]
    /\ rd = [r \in Readers |-> IdleReader]
    /\ rcuWait = {}

StatsNext ==
    \/ dp_genl_openflow_dumpit
    \/ dp_genl_openflow_done
    \/ del_dp_whole

StatsSpec == StatsInit /\ [][StatsNext]_vars

\* ------------------------------------------------------------------------
\* Properties of the statistics dumps (specification StatsSpec).
\* ------------------------------------------------------------------------
\* The bodies of the fragments of the dump, one after the other.
RECURSIVE Concat(_)
Concat(frags) ==
    IF frags = << >> THEN << >>
    ELSE Head(frags).body \o Concat(Tail(frags))

\* The body of one dump into an unbounded buffer: every flow that the
\* request selects, table by table and in each table in position order.
RECURSIVE Unbounded(_, _, _, _)
Unbounded(tables, table_id, idx, pos) ==
    IF idx >= Len(tables) THEN << >>
    ELSE IF pos > Len(tables[idx + 1])
    THEN Unbounded(tables, table_id, idx + 1, 1)
    ELSE (IF tables[idx + 1][pos].match /\ table_id \in {255, idx}
          THEN << [table_id |-> idx, pos |-> pos] >> ELSE << >>)
         \o Unbounded(tables, table_id, idx, pos + 1)

\* The reply buffer can hold each single flow record.
EachFits ==
    \A i \in DOMAIN cb.tables : \A k \in DOMAIN cb.tables[i] :
      cb.tables[i][k].len <= cb.buf

\* A FLOW dump whose init succeeded has ended with the datapath in place.
FlowDumpEnded ==
    /\ cb.pc \in {"done", "closed"} /\ cb.rq.type = "FLOW"
    /\ cb.state = "heap" /\ cb.ret # -ENOENT

\* C23: Stats resumption.  For any flow tables and any reply buffer that
\* can hold each single flow record, the bodies of all fragments of a FLOW
\* dump, concatenated, equal the body of one dump into an unbounded buffer
\* (every matching flow once, in table-index then table-position order),
\* and MORE is set on every fragment except the last.
C23_StatsResumption ==
    (FlowDumpEnded /\ EachFits) =>
      /\ cb.ret = 0 /\ cb.frags # << >>
      /\ Concat(cb.frags) = Unbounded(cb.tables, cb.rq.table_id, 0, 1)
      /\ \A k \in DOMAIN cb.frags : cb.frags[k].more <=> k < Len(cb.frags)

C23_Witness ==
    /\ FlowDumpEnded /\ EachFits
    /\ Len(cb.frags) = 2 /\ cb.buf = 3 /\ cb.rq.table_id = 255
    /\ Len(cb.tables[1]) = 1 /\ Len(cb.tables[2]) = 2
    /\ Len(cb.frags[1].body) = 2 /\ Len(cb.frags[2].body) = 1
    /\ cb.frags[2].body[1] = [table_id |-> 1, pos |-> 2]

\* The records of the unbounded dump that no empty buffer can hold.
TooLong(U) ==
    {k \in DOMAIN U : cb.tables[U[k].table_id + 1][U[k].pos].len > cb.buf}

\* C24: a flow whose record cannot fit into an empty buffer makes the poll
\* that meets it report ENOMEM: the records before it have been sent in
\* fragments marked MORE, no further message is emitted and the dump ends.
\* A poll asks for more only when it wrote at least one record.
C24_RecordTooLong ==
    LET U == Unbounded(cb.tables, cb.rq.table_id, 0, 1) IN
    /\ cb.rq.type = "FLOW" =>
         \A k \in DOMAIN cb.frags :
           cb.frags[k].more => cb.frags[k].body # << >>
    /\ (FlowDumpEnded /\ TooLong(U) # {}) =>
         /\ cb.ret = -ENOMEM
         /\ \A k \in DOMAIN cb.frags : cb.frags[k].more
         /\ \E n \in TooLong(U) :
              /\ \A m \in TooLong(U) : n <= m
              /\ Concat(cb.frags) = SubSeq(U, 1, n - 1)

C24_Witness ==
    /\ FlowDumpEnded /\ cb.ret = -ENOMEM /\ cb.buf = 1
    /\ TooLong(Unbounded(cb.tables, cb.rq.table_id, 0, 1)) = {2}
    /\ Len(cb.frags) = 1

\* The first matching flow is too long: the only poll emits nothing.
C24_WitnessNoMessage ==
    /\ FlowDumpEnded /\ cb.ret = -ENOMEM /\ cb.frags = << >>
    /\ 1 \in TooLong(Unbounded(cb.tables, cb.rq.table_id, 0, 1))

\* The dump is over: cb->done has run (or faulted).
DumpClosed == cb.pc = "closed" \/ (cb.pc = "oops" /\ cb.done # << >>)

\* C25: whatever terminal state a stats dump reaches (done, dump error,
\* init failure, datapath gone), the category's done function releases
\* exactly the state that the category's init allocated, exactly once,
\* and is never applied to state that init did not produce.
C25_DoneReleasesInitState ==
    /\ \A k \in DOMAIN cb.done : cb.done[k] = "heap"
    /\ Len(cb.done) <= 1
    /\ DumpClosed => (cb.heap # "alloc" /\ cb.pc = "closed")

\* What the code keeps of it: state that init allocated is released once
\* the dump is over, and done runs at most once.
C25_AllocatedStateReleased ==
    /\ Len(cb.done) <= 1
    /\ DumpClosed => cb.heap # "alloc"
    /\ cb.heap = "freed" => cb.done = << "heap" >>

\* A VENDOR dump: init failed with the dump marked started, and done has
\* read the vendor id through the null state.
C25_VendorDoneOnNull ==
    /\ cb.rq.type = "VENDOR" /\ cb.args0 = 1 /\ cb.ret = -EINVAL
    /\ cb.pc = "oops" /\ cb.done = << "NULL" >>

\* A FLOW or PORT dump whose init failed: done has been applied to the
\* null state.
C25_DoneAfterInitFailure ==
    /\ cb.rq.type \in {"FLOW", "PORT"} /\ cb.ret = -ENOMEM
    /\ cb.heap = "none" /\ cb.pc = "closed" /\ cb.done = << "NULL" >>

\* How many records of the fragments so far are for the port of device d.
Reported(d) ==
    Cardinality({k \in DOMAIN Concat(cb.frags) : Concat(cb.frags)[k] = d})

\* The ports of datapath 0: the numbered ones and the local port.
Attached ==
    ({ports[0][s] : s \in Slots} \cup {local_port[0]}) \ {NULL}

\* A dump of all ports (port_no = OFPP_NONE) whose init succeeded.
AllPortsDump ==
    cb.rq.type = "PORT" /\ cb.rq.port_no = OFPP_NONE /\ cb.state = "heap"

\* C26: the PORT stats dump is resumable.  For a request with port_no =
\* NONE, over all fragments of the dump each port attached throughout the
\* dump (every numbered port and the local port) has its record emitted
\* exactly once, each poll resuming at the first port not yet reported.
C26_PortDumpResumable ==
    AllPortsDump =>
      /\ \A d \in Devs : Reported(d) <= 1
      /\ (cb.args0 = 2 /\ dps[0]) => \A d \in Attached : Reported(d) = 1

\* What the code does: only a dump that fits in one reply with room for one
\* more record reports each port once.
C26_SinglePollDump ==
    (AllPortsDump /\ cb.args0 = 2 /\ dps[0]
       /\ Cardinality(Attached) < cb.buf) =>
      /\ Len(cb.frags) = 1
      /\ \A d \in Attached : Reported(d) = 1

\* A reply buffer of one record: every poll reports the local port again
\* and asks for more.
C26_LocalPortRepeated ==
    /\ AllPortsDump /\ cb.buf = 1 /\ Len(cb.frags) = MaxFrags
    /\ \A k \in 2 .. MaxFrags :
         cb.frags[k].body = << local_port[0] >> /\ cb.frags[k].more

\* With it the second numbered port is not reported in any fragment.
C26_PortNeverReported ==
    /\ AllPortsDump /\ cb.buf = 1 /\ Len(cb.frags) = MaxFrags /\ dps[0]
    /\ \E d \in Attached : Reported(d) = 0

\* The first poll filled the buffer with numbered ports and wrote the
\* record of the local port after its end.
C26_WrittenPastBuffer ==
    /\ AllPortsDump /\ cb.frags # << >>
    /\ Len(cb.frags[1].body) = cb.buf + 1

\* The first call of the dump function has returned for a request that
\* found its datapath.
Answered == cb.pc \in {"done", "closed", "oops"} /\ cb.ret # -ENOENT

\* The request was refused with the given OpenFlow error and nothing else:
\* the dump is not marked started, has no state and no STATS_REPLY.
Refused(code) ==
    /\ cb.errs = << code >> /\ cb.ret < 0
    /\ cb.args0 = 0 /\ cb.state = "NULL" /\ cb.heap = "none"
    /\ cb.frags = << >> /\ cb.done = << >>

\* C27: a STATS request whose type is not a known category is answered
\* with an OpenFlow ERROR BAD_STAT unicast to the requester, and a VENDOR
\* stats request for an unsupported vendor with BAD_VENDOR; in both cases
\* the request fails explicitly, no dump state is created and no
\* STATS_REPLY fragment is emitted.
C27_UnsupportedStats ==
    Answered =>
      /\ (cb.rq.type # "VENDOR" /\ ~InArray(cb.rq.type)) => Refused("BAD_STAT")
      /\ cb.rq.type = "VENDOR" => Refused("BAD_VENDOR")

\* What the code keeps of it: the unknown type.
C27_UnknownTypeBadStat ==
    (Answered /\ cb.rq.type # "VENDOR" /\ ~InArray(cb.rq.type)) =>
      Refused("BAD_STAT")

\* A VENDOR request has failed with EINVAL: no OpenFlow error was sent and
\* the dump is marked started.
C27_VendorNotAnswered ==
    /\ Answered /\ cb.rq.type = "VENDOR" /\ cb.pc = "done"
    /\ cb.ret = -EINVAL /\ cb.errs = << >> /\ cb.args0 = 1
    /\ cb.frags = << >>

C27_WitnessBadStat ==
    Answered /\ cb.rq.type = "QUEUE" /\ cb.pc = "closed" /\ Refused("BAD_STAT")

\* ------------------------------------------------------------------------
\* The commands that take locks, together: ADD_DP, DEL_DP, ADD_PORT,
\* DEL_PORT and OPENFLOW (which carries port-mod to the chain) of the
\* Generic Netlink family, and the maintenance threads.
\* ------------------------------------------------------------------------
OfStep ==
    \/ \E idx \in DpIdx \cup {-1, MaxDp}, short \in BOOLEAN :
         dp_genl_openflow(idx, short)
    \/ of_mutex \/ fwd_control_input \/ dp_send_barrier_reply \/ of_unlock

LockNext == GenlStep \/ OfStep \/ MaintStep

\* Datapath 0 exists and one OpenFlow request is to arrive.
LockInit == CtlInit /\ Len(ofp.q) = 1 /\ ofp.q[1].xid = 1

LockSpec == LockInit /\ [][LockNext]_vars

\* The handler is inside one of the commands that take both locks.
BothLocks == genl.cmd \in {"add_dp", "del_dp", "add_port", "del_port"}

\* The places where the handler waits for a lock.
AtRtnl == genl.pc \in {"new_dp_rtnl", "port_rtnl", "deldp_rtnl"}
AtMutex == genl.pc \in {"new_dp_mutex", "port_mutex", "deldp_mutex",
                        "of_mutex"}

\* C28: lock discipline.  Datapath create, destroy, add-port, del-port and
\* port-config modification (an OpenFlow request handed to the chain) run
\* with dp_mutex held, so no two of them overlap; a path that needs RTNL
\* and dp_mutex takes RTNL first and no path takes RTNL while it holds
\* dp_mutex; the holder of a lock the handler waits for is never itself
\* waiting for a lock, so they do not deadlock.
C28_LockDiscipline ==
    /\ [](/\ genl.pc = "of_input" => dp_mutex = GENL
          /\ (dp_mutex = GENL /\ BothLocks) => rtnl = GENL
          /\ AtRtnl => (rtnl = FREE /\ dp_mutex # GENL)
          /\ AtMutex =>
               \/ dp_mutex = FREE
               \/ dp_mutex \in DpIdx /\ ENABLED chain_timeout_done(dp_mutex))
    /\ [][/\ (dpVars' # dpVars \/ portVars' # portVars) => dp_mutex = GENL
          /\ (rtnl' = GENL /\ rtnl # GENL) => dp_mutex # GENL]_vars

\* The handler holds RTNL and waits for dp_mutex, which a maintenance
\* thread holds during its sweep.
C28_Witness ==
    /\ genl.pc = "port_mutex" /\ rtnl = GENL
    /\ dp_mutex \in DpIdx /\ task[dp_mutex].pc = "sweeping"

\* A port-mod is handed to the chain under dp_mutex alone.
C28_WitnessPortMod ==
    /\ genl.pc = "of_input" /\ ofp.q[Cur].type = "mod"
    /\ dp_mutex = GENL /\ rtnl = FREE

\* ------------------------------------------------------------------------
\* The duration of a flow in FLOW_REMOVED and in the FlowStats record.
\* cb holds the flow: its age in ticks (get_jiffies_64() - flow->created)
\* and the messages that reported it.
\* ------------------------------------------------------------------------
\* jiffies_64_to_secs: do_div(j, HZ); return j
jiffies_64_to_secs(j) == j \div HZ

\* jiffies_64_to_nsecs: return (j - jiffies_64_to_secs(j)), as a u32; the
\* ages here are far below 2^32.
jiffies_64_to_nsecs(j) == j - jiffies_64_to_secs(j)

\* dp_send_flow_end: the FLOW_REMOVED of the flow.
dp_send_flow_end ==
    /\ cb.pc = "flow"
    /\ \A k \in DOMAIN cb.out : cb.out[k].type # "FLOW_REMOVED"
    /\ cb' = [cb EXCEPT !.out = Append(@,
                [type |-> "FLOW_REMOVED",
                 duration_sec |-> jiffies_64_to_secs(cb.t),
                 duration_nsec |-> jiffies_64_to_nsecs(cb.t)])]
    /\ UNCHANGED << dpVars, portVars, lockVars, genl, task, rd, rcuWait,
                    ofp, fwd >>

\* flow_stats_dump_callback: the FlowStats record of the flow; duration is
\* divided by HZ with do_div before the two conversions are applied to it.
flow_stats_dump_callback ==
    /\ cb.pc = "flow"
    /\ \A k \in DOMAIN cb.out : cb.out[k].type # "FLOW_STATS"
    /\ LET duration == cb.t \div HZ IN
       cb' = [cb EXCEPT !.out = Append(@,
                [type |-> "FLOW_STATS",
                 duration_sec |-> jiffies_64_to_secs(duration),
                 duration_nsec |-> jiffies_64_to_nsecs(duration)])]
    /\ UNCHANGED << dpVars, portVars, lockVars, genl, task, rd, rcuWait,
                    ofp, fwd >>

\* A flow of datapath 0 of any age up to MaxTicks.
DurInit ==
    /\ cb \in {[pc |-> "flow", t |-> t, out |-> << >>] : t \in 0 .. MaxTicks}
    /\ ofp = NoOfp
    /\ fwd = NoFwd
    /\ dps = [i \in DpIdx |-> i = 0]
    /\ dpMem = [i \in DpIdx |-> IF i = 0 THEN "alloc" ELSE "none"]
    /\ chain = [i \in DpIdx |-> IF i = 0 THEN "live" ELSE "none"]
    /\ netdev = [i \in DpIdx |-> IF i = 0 THEN "registered" ELSE "none"]
    /\ local_port = [i \in DpIdx |-> IF i = 0 THEN LocalDev(0) ELSE NULL]
    /\ ports = [i \in DpIdx |-> [s \in Slots |-> NULL]]
    /\ port_list = [i \in DpIdx |-> IF i = 0 THEN << LocalDev(0) >>
                                    ELSE << >>]
    /\ nbp = [d \in Devs |-> IF d = LocalDev(0)
                             THEN [NoPort EXCEPT !.mem = "alloc", !.dp = 0,
                                                 !.port_no = OFPP_LOCAL]
                             ELSE NoPort]
    /\ br_port = [d \in Devs |-> NULL]
    /\ promisc = [d \in Devs |-> IF d = LocalDev(0) THEN 1 ELSE 0]
    /\ refcnt = [d \in Devs |-> IF d = LocalDev(0) THEN 1 ELSE 0]
    /\ modrefs = 1
    /\ dp_mutex = FREE
    /\ rtnl = FREE
    /\ genl = IdleGenl
    /\ task = [i \in DpIdx |-> IF i = 0 THEN [NoTask EXCEPT !.pc = "sleep"]
                               ELSE NoTask]
    /\ rd = [r \in Readers |-> IdleReader]
    /\ rcuWait = {}

DurNext == dp_send_flow_end \/ flow_stats_dump_callback

DurSpec == DurInit /\ [][DurNext]_vars

\* The flow has been reported in a message of the given type.
ReportedIn(type) == \E k \in DOMAIN cb.out : cb.out[k].type = type

\* C29: for every elapsed tick count t of a flow, both FLOW_REMOVED and the
\* FlowStats record report duration_sec = floor(t / HZ) and duration_nsec
\* = the sub-second remainder of t in nanoseconds, so duration_nsec is
\* below 1,000,000,000 and the two together represent t.
C29_Durations ==
    cb.pc = "flow" =>
      \A k \in DOMAIN cb.out :
        /\ cb.out[k].duration_sec = cb.t \div HZ
        /\ cb.out[k].duration_nsec = (cb.t % HZ) * (1000000000 \div HZ)
        /\ cb.out[k].duration_nsec < 1000000000

\* What the code keeps of it: the seconds of FLOW_REMOVED.
C29_FlowRemovedSeconds ==
    cb.pc = "flow" =>
      \A k \in DOMAIN cb.out :
        cb.out[k].type = "FLOW_REMOVED" =>
          cb.out[k].duration_sec = cb.t \div HZ

\* A flow of one second and one tick: FLOW_REMOVED reports HZ ticks as the
\* nanoseconds, the FlowStats record no second at all.
C29_WrongDurations ==
    /\ cb.pc = "flow" /\ cb.t = HZ + 1 /\ Len(cb.out) = 2
    /\ \A k \in DOMAIN cb.out :
         \/ /\ cb.out[k].type = "FLOW_REMOVED"
            /\ cb.out[k].duration_sec = 1 /\ cb.out[k].duration_nsec = HZ
         \/ /\ cb.out[k].type = "FLOW_STATS"
            /\ cb.out[k].duration_sec = 0 /\ cb.out[k].duration_nsec = 1

\* ------------------------------------------------------------------------
\* The result of new_dp (specification Spec).
\* ------------------------------------------------------------------------
\* ADD_DP has returned.
AddDpReturned == genl.cmd = "add_dp" /\ genl.pc = "return"

\* The datapath that ADD_DP was about is fully created and published.
Published ==
    /\ genl.dp \in DpIdx /\ dps[genl.dp]
    /\ dpMem[genl.dp] = "alloc" /\ netdev[genl.dp] = "registered"
    /\ chain[genl.dp] = "live" /\ local_port[genl.dp] = LocalDev(genl.dp)

\* new_dp is on its way out after a creation step has failed.
ErrorExit ==
    genl.pc \in {"err_destroy_local_port", "err_destroy_chain",
                 "err_destroy_dp_dev", "err_free_dp", "err_put",
                 "err_unlock"}

\* C30: new_dp returns 0 if and only if the datapath was fully created and
\* published in the registry; whenever a creation step fails, chain
\* creation and the start of the maintenance task included, it returns a
\* negative error code.
C30_NewDpResult ==
    /\ [](/\ ErrorExit => genl.err < 0
          /\ AddDpReturned => (genl.err = 0 => Published)
          /\ AddDpReturned => genl.err <= 0)
    /\ [][genl.pc = "new_dp_unlock" => (genl'.err = 0 /\ Published')]_vars

\* What the code keeps of it: it never returns a positive value, and when
\* it has published the datapath it returns 0.
C30_PublishedReturnsZero ==
    /\ [](AddDpReturned => genl.err <= 0)
    /\ [][genl.pc = "new_dp_unlock" => (genl'.err = 0 /\ Published')]_vars

\* new_dp has returned 0 for a datapath it freed again.
C30_ZeroAfterFailure ==
    /\ AddDpReturned /\ genl.err = 0
    /\ ~dps[genl.dp] /\ dpMem[genl.dp] = "freed"

\* ------------------------------------------------------------------------
\* Lookups in the registry by the command handlers (specification
\* LockSpec).
\* ------------------------------------------------------------------------
\* The handler holds a datapath it has looked up in dps[] and has not made
\* its last use of it yet.
HoldsDp ==
    \/ genl.pc \in {"query_reply", "of_mutex", "of_input", "of_barrier"}
    \/ /\ genl.cmd \in {"del_dp", "add_port", "del_port"}
       /\ genl.pc \notin {"idle", "return", "deldp_rtnl", "deldp_mutex",
                          "deldp_lookup", "port_rtnl", "port_mutex",
                          "port_lookup"}

\* The handler is inside rcu_read_lock or holds dp_mutex.
Guarded == genl.rcu \/ dp_mutex = GENL

\* C31: every lookup of a datapath in the registry, and every use of the
\* datapath it returned, happens while the caller holds rcu_read_lock or
\* dp_mutex continuously from the lookup to the last use; this holds for
\* QUERY_DP and the OpenFlow passthrough command.
C31_LookupGuarded == HoldsDp => Guarded

\* What the code keeps of it: QUERY_DP, DEL_DP, ADD_PORT and DEL_PORT look
\* up and use the datapath under a guard, and the OpenFlow command uses
\* (but does not look up) the datapath under dp_mutex.
C31_GuardedButOpenflowLookup ==
    (HoldsDp /\ genl.pc # "of_mutex") => Guarded

\* dp_genl_openflow has looked up its datapath and holds no guard, while
\* the maintenance thread holds dp_mutex.
C31_UnguardedLookup ==
    /\ genl.cmd = "openflow" /\ genl.pc = "of_mutex" /\ genl.dp \in DpIdx
    /\ ~genl.rcu /\ dp_mutex \in DpIdx

\* ------------------------------------------------------------------------
\* Ownership of the frame on the output path (specification FwdSpec).
\* ------------------------------------------------------------------------
\* How often buffer id has been consumed.
Consumptions(id) ==
    Cardinality({k \in DOMAIN fwd.consumed : fwd.consumed[k].id = id})

\* The call has come to its end: it returned or it faulted.
OutputEnded == fwd.pc \in {"done", "oops"}

\* C32: dp_output_port and dp_output_control take ownership of the frame
\* they are given: on every path and for every out_port, success or error,
\* the frame (and every clone made of it) is consumed exactly once, by
\* transmission, delivery to the local interface, acceptance by the flow
\* tables or release; in output_all a clone-allocation failure releases
\* the original and returns ENOMEM.
C32_FrameConsumedOnce ==
    /\ \A id \in 0 .. MaxPorts : Consumptions(id) <= 1
    /\ OutputEnded =>
         /\ fwd.pc = "done"
         /\ \A id \in 0 .. fwd.clones : Consumptions(id) = 1
         /\ Len(fwd.consumed) = fwd.clones + 1

\* What the code keeps of it: no buffer is consumed twice, and a call
\* that returns has consumed the frame and every clone once.
C32_ConsumedOnceOnReturn ==
    /\ \A id \in 0 .. MaxPorts : Consumptions(id) <= 1
    /\ fwd.pc = "done" =>
         /\ \A id \in 0 .. fwd.clones : Consumptions(id) = 1
         /\ Len(fwd.consumed) = fwd.clones + 1

\* A frame that came from the local interface is sent to IN_PORT:
\* dp_xmit_skb reads skb->dev->br_port->dp through the null br_port of
\* the local device, and the frame is neither sent nor released.
C32_FaultInPort ==
    /\ fwd.pc = "oops" /\ fwd.out_port = OFPP_IN_PORT
    /\ fwd.dev = LocalDev(0) /\ fwd.consumed = << >>

\* A frame without a device is sent to TABLE.
C32_FaultTable ==
    /\ fwd.pc = "oops" /\ fwd.out_port = OFPP_TABLE
    /\ fwd.dev = NULL /\ fwd.consumed = << >>

\* output_all could not clone: the original is released, ENOMEM returned,
\* the clones made before have been consumed.
C32_CloneFailure ==
    /\ fwd.pc = "done" /\ fwd.ret = -ENOMEM /\ fwd.clones = 1
    /\ fwd.out_port = OFPP_ALL
    /\ Consumptions(0) = 1 /\ Consumptions(1) = 1

\* ------------------------------------------------------------------------
\* The order of the steps of del_dp (specification Spec).
\* ------------------------------------------------------------------------
\* DEL_DP has found its datapath and is in del_dp or past it.
InDelDp ==
    /\ genl.cmd = "del_dp" /\ genl.dp \in DpIdx
    /\ genl.pc \notin {"idle", "return", "deldp_rtnl", "deldp_mutex",
                       "deldp_lookup", "oops"}
    /\ ~(genl.pc = "deldp_unlock" /\ genl.err # 0)

\* del_dp has not got past kthread_stop.
Joining == genl.pc \in {"del_dp_sig", "del_dp_stop", "del_dp_join"}

\* fwd_discard_all has been called.
Discarded ==
    \/ genl.pc \in {"del_dp_dev_destroy", "del_dp_chain", "del_dp_free",
                    "deldp_unlock"}
    \/ genl.pc \in {"sync", "sync_wait"} /\ genl.sret = "del_dp_chain"

\* Every port of datapath d has been deleted.
NoPortLeft(d) ==
    /\ port_list[d] = << >>
    /\ \A s \in Slots : ports[d][s] = NULL

InLoop(i) == task[i].pc \in {"sleep", "sweep", "sweeping"}

\* The task has seen the signal and left the first loop.
SawSignal(i) ==
    task[i].pc \in {"stop_check", "set_state", "schedule", "exited"}

\* C34: each datapath has exactly one maintenance task, which alternates
\* a chain timeout sweep with an interruptible sleep; once the task has
\* observed the kill signal it starts no further sweep, and the chain and
\* the datapath are destroyed only after the task has been joined, so no
\* sweep runs on a chain that is being or has been destroyed.
C34_MaintenanceTask ==
    /\ [](\A i \in DpIdx :
            /\ dps[i] => task[i].pc # "none"
            /\ InLoop(i) => (chain[i] = "live" /\ dpMem[i] = "alloc")
            /\ (chain[i] = "destroyed" \/ dpMem[i] = "freed") =>
                 task[i].pc \in {"none", "exited"})
    /\ [][\A i \in DpIdx :
            /\ SawSignal(i) => task'[i].pc \notin {"sweep", "sweeping"}
            /\ (task[i].pc = "sweeping" /\ task'[i] # task[i]) =>
                 task'[i].pc = "sleep"
            /\ (task[i].pc = "sleep" /\ task'[i].pc # "sleep") =>
                 task'[i].pc = IF task[i].sig THEN "stop_check" ELSE "sweep"
         ]_vars

\* DEL_DP waits for the task, which was about to sweep when the signal
\* came.
C34_Witness ==
    /\ genl.pc = "del_dp_join" /\ task[genl.dp].pc = "sweep"
    /\ task[genl.dp].sig /\ chain[genl.dp] = "live"

\* The chain has been destroyed, after the task has exited.
C34_WitnessDestroyed ==
    /\ genl.pc = "del_dp_free" /\ chain[genl.dp] = "destroyed"
    /\ task[genl.dp].pc = "exited"

\* ------------------------------------------------------------------------
\* dp_update_port_flags store by store, beside a frame on the output path
\* (specification RaceSpec).  The readers of p->config take no lock, so
\* the spinlock of the port orders nothing for them.
\* ------------------------------------------------------------------------
\* The port-mods tried against a frame: on port 2, with any address.
RacePortMods == {opm \in PortMods : opm.port_no = 2}

\* The lookup and the hw_addr test; spin_lock_irqsave.
port_flags_lock(opm) ==
    /\ ofp.step = "idle"
    /\ LET p == IF opm.port_no < MaxPorts
                THEN (IF opm.port_no \in Slots THEN ports[0][opm.port_no]
                      ELSE NULL)
                ELSE IF opm.port_no = OFPP_LOCAL THEN local_port[0]
                ELSE NULL
       IN
       ofp' = IF p = NULL \/ opm.hw_addr # p
              THEN [ofp EXCEPT !.opm = opm, !.ret = -1, !.was = nbp,
                               !.step = "done"]
              ELSE IF opm.mask = {}
              THEN [ofp EXCEPT !.opm = opm, !.ret = 0, !.was = nbp,
                               !.step = "done"]
              ELSE [ofp EXCEPT !.opm = opm, !.was = nbp, !.step = "clear"]
    /\ UNCHANGED << cb, dpVars, portVars, lockVars, genl, task, rd, rcuWait,
                    fwd >>

\* p->config &= ~config_mask.  The two assignments race with the readers:
\* the build may keep them as two stores or make one store of them.
port_flags_clear ==
    /\ ofp.step = "clear"
    /\ LET p == ofp.opm.hw_addr
       IN  \/ /\ nbp' = [nbp EXCEPT ![p].config = @ \ ofp.opm.mask]
              /\ ofp' = [ofp EXCEPT !.step = "set"]
           \/ /\ nbp' = [nbp EXCEPT ![p].config = masked_config(@, ofp.opm)]
              /\ ofp' = [ofp EXCEPT !.step = "done", !.ret = 0]
    /\ UNCHANGED << cb, dpVars, ports, port_list, br_port, promisc, refcnt,
                    lockVars, genl, task, rd, rcuWait, fwd >>

\* p->config |= ntohl(opm->config) & config_mask; spin_unlock_irqrestore.
port_flags_set ==
    /\ ofp.step = "set"
    /\ LET p == ofp.opm.hw_addr
       IN  nbp' = [nbp EXCEPT ![p].config =
                                @ \cup (ofp.opm.config \cap ofp.opm.mask)]
    /\ ofp' = [ofp EXCEPT !.step = "done", !.ret = 0]
    /\ UNCHANGED << cb, dpVars, ports, port_list, br_port, promisc, refcnt,
                    lockVars, genl, task, rd, rcuWait, fwd >>

\* Devices 1 and 2 are ports of datapath 0, port 2 has any flags, and a
\* frame from device 1 arrives.
RaceInit ==
    /\ FwdInit
    /\ \A s \in EthDevs \cap Slots : ports[0][s] = s
    /\ \A d \in Devs : d # 2 => nbp[d].config = {}
    /\ fwd.dev = 1 /\ fwd.len = 64 /\ ~fwd.ignore_no_fwd

RaceNext ==
    \/ FwdNext
    \/ \E opm \in RacePortMods : port_flags_lock(opm)
    \/ port_flags_clear
    \/ port_flags_set

RaceSpec == RaceInit /\ [][RaceNext]_vars

\* The config of port d before the port-mod, and after it.
ConfigBefore(d) == ofp.was[d].config
ConfigAfter(d) == masked_config(ofp.was[d].config, ofp.opm)

\* A port-mod on device d is under way or has been made.
ModOn(d) == ofp.step \in {"clear", "set", "done"} /\ ofp.ret = 0
              /\ ofp.opm.hw_addr = d

\* C35: a reader that tests a port's config bits concurrently with a
\* port-mod on that port finds only the value before or the value after
\* the port-mod; a port-mod whose mask and bits both hold NO_FLOOD, on a
\* port that already has NO_FLOOD, never lets a concurrent FLOOD transmit
\* on that port.
C35_ConfigBeforeOrAfter ==
    \A d \in EthDevs \cap Slots :
      ModOn(d) =>
        /\ nbp[d].config \in {ConfigBefore(d), ConfigAfter(d)}
        /\ ("NO_FLOOD" \in ConfigBefore(d) \cap ConfigAfter(d)
               /\ fwd.flood /\ Flooding) => ~Issued(d)

\* What the code keeps: a reader finds the value before, the value with the
\* masked bits cleared, or the value after, and a finished port-mod has
\* left the value after.
C35_ClearedInBetween ==
    \A d \in EthDevs \cap Slots :
      ModOn(d) =>
        /\ nbp[d].config \in {ConfigBefore(d), ConfigAfter(d),
                              ConfigBefore(d) \ ofp.opm.mask}
        /\ ofp.step = "done" => nbp[d].config = ConfigAfter(d)

\* A FLOOD has been transmitted on port 2, which had NO_FLOOD before the
\* port-mod and has it after.
C35_FloodOnNoFloodPort ==
    /\ FloodDone /\ fwd.flood /\ ModOn(2) /\ ofp.step = "done"
    /\ "NO_FLOOD" \in ConfigBefore(2) /\ "NO_FLOOD" \in nbp[2].config
    /\ "NO_FLOOD" \in ofp.opm.mask \cap ofp.opm.config
    /\ \E k \in DOMAIN fwd.xmit : fwd.xmit[k].dev = 2

\* A frame sent to port 2 alone went out although the port had NO_FWD
\* before the port-mod and has it after.
C35_OutputOnNoFwdPort ==
    /\ fwd.pc = "done" /\ fwd.out_port = 2 /\ ModOn(2) /\ ofp.step = "done"
    /\ "NO_FWD" \in ConfigBefore(2) /\ "NO_FWD" \in nbp[2].config
    /\ \E k \in DOMAIN fwd.xmit : fwd.xmit[k].dev = 2

\* The numbered ports of datapath 0.
Numbered == {ports[0][s] : s \in Slots} \ {NULL}

\* C36: every fragment written by the PORT stats dump holds at most
\* floor(body_len / record_size) port records (cb.buf), so the dump never
\* writes past the reply body it was given, also when the local port's
\* record is appended after the numbered ports.
C36_FragmentWithinBody ==
    cb.rq.type = "PORT" =>
      /\ cb.pc # "oops"
      /\ \A k \in DOMAIN cb.frags : Len(cb.frags[k].body) <= cb.buf

\* What the code keeps: the numbered ports of a fragment fit the body, a
\* single-port request writes at most one record, and only the record of
\* the local port is written after the end, one record past it.
C36_OnlyLocalPastEnd ==
    cb.rq.type = "PORT" =>
      \A k \in DOMAIN cb.frags :
        LET body == cb.frags[k].body IN
        /\ Len(body) <= cb.buf + 1
        /\ cb.rq.port_no # OFPP_NONE => Len(body) <= 1
        /\ Len(body) = cb.buf + 1 =>
             /\ cb.rq.port_no = OFPP_NONE
             /\ body[Len(body)] = LocalDev(0)
             /\ \A j \in 1 .. cb.buf : body[j] # LocalDev(0)

\* Two numbered ports filled a body of two records and the local port's
\* record was written behind them.
C36_LocalPastEnd ==
    /\ AllPortsDump /\ cb.buf = 2 /\ cb.frags # << >> /\ dps[0]
    /\ cb.frags[1].body = << 1, 2, LocalDev(0) >>

\* The write past the end of the body faulted.
C36_FaultPastEnd ==
    /\ AllPortsDump /\ cb.pc = "oops" /\ cb.done = << >>
    /\ Cardinality(Numbered) >= cb.buf

\* ------------------------------------------------------------------------
\* The dump under a receiver that keeps reading (specification PollSpec):
\* netlink_dump calls the dump function again for as long as it returns a
\* positive value, and the done function once after that.
\* ------------------------------------------------------------------------
PollSpec ==
    /\ StatsInit
    /\ [][StatsNext]_vars
    /\ WF_vars(dp_genl_openflow_dumpit)
    /\ WF_vars(dp_genl_openflow_done)

\* A PORT dump with a reply body of at least n records.
PortDump(n) == cb.rq.type = "PORT" /\ cb.buf >= n

\* The dump function is called no more: done has been called, or a call
\* has faulted.
DumpOver == cb.pc \in {"closed", "oops"}

\* C37: every PORT stats dump terminates: for a single-port request and
\* for an all-ports request, and for every reply body that holds at least
\* one record, the polls reach a fragment without MORE after finitely many
\* fragments, after which the dump is done and further polls emit nothing.
C37_PortDumpTerminates == PortDump(1) ~> DumpOver

\* What the code keeps: a PORT dump whose reply body holds at least two
\* records ends, after at most three fragments, and a poll of a dump that
\* is done emits nothing.
C37_TerminatesWithTwoRecords ==
    /\ PortDump(2) ~> DumpOver
    /\ [](PortDump(2) => Len(cb.frags) <= 3)
    /\ [][cb.args0 = 2 => cb'.frags = cb.frags]_vars

\* A single-port request with a body of one record: every poll writes the
\* port's record again and asks for more.
C37_SinglePortForever ==
    /\ cb.rq.type = "PORT" /\ cb.rq.port_no = 1 /\ cb.buf = 1
    /\ Len(cb.frags) = MaxFrags /\ cb.pc = "dumpit" /\ cb.args0 = 1
    /\ \A k \in 1 .. MaxFrags : cb.frags[k].body = << 1 >> /\ cb.frags[k].more

\* An all-ports request with a body of one record on a datapath without
\* numbered ports: every poll finds the cursor where it was and writes the
\* local port's record again.
C37_AllPortsForever ==
    /\ AllPortsDump /\ cb.buf = 1 /\ Numbered = {} /\ dps[0]
    /\ Len(cb.frags) = MaxFrags /\ cb.pc = "dumpit" /\ cb.args0 = 1
    /\ cb.start_port = OFPP_LOCAL + 1
    /\ \A k \in 1 .. MaxFrags : cb.frags[k].body = << LocalDev(0) >>

\* ------------------------------------------------------------------------
\* A dump whose datapath is deleted and whose index is taken by a new
\* datapath between two polls (specification ReuseSpec).
\* ------------------------------------------------------------------------
\* The tables a new datapath can have by the next poll: empty, or with two
\* flows each that the request selects.
NewTables ==
    {[i \in 1 .. NumTables |-> << >>],
     [i \in 1 .. NumTables |-> << [len |-> 1, match |-> TRUE],
                                  [len |-> 1, match |-> TRUE] >>]}

\* dp_genl_add with the index of the deleted datapath, between two calls
\* of the dump function: new_dp makes a datapath with a chain of its own
\* and its local port only, and stores it in dps[0].
new_dp_whole ==
    /\ cb.pc = "dumpit" /\ ~dps[0] /\ dpMem[0] = "freed" /\ cb.fresh = -1
    /\ \E t \in IF cb.rq.type = "FLOW" THEN NewTables ELSE {cb.tables} :
         cb' = [cb EXCEPT !.fresh = Len(cb.frags), !.tables = t]
    /\ dps' = [dps EXCEPT ![0] = TRUE]
    /\ dpMem' = [dpMem EXCEPT ![0] = "alloc"]
    /\ chain' = [chain EXCEPT ![0] = "live"]
    /\ netdev' = [netdev EXCEPT ![0] = "registered"]
    /\ modrefs' = modrefs + 1
    /\ port_list' = [port_list EXCEPT ![0] = << LocalDev(0) >>]
    /\ nbp' = [nbp EXCEPT ![LocalDev(0)] =
                 [NoPort EXCEPT !.mem = "alloc", !.dp = 0,
                                !.port_no = OFPP_LOCAL]]
    /\ promisc' = [promisc EXCEPT ![LocalDev(0)] = 1]
    /\ refcnt' = [refcnt EXCEPT ![LocalDev(0)] = 1]
    /\ task' = [task EXCEPT ![0] = [NoTask EXCEPT !.pc = "sleep"]]
    /\ UNCHANGED << local_port, ports, br_port, lockVars, genl, rd, rcuWait,
                    ofp, fwd >>

ReuseNext == StatsNext \/ new_dp_whole

ReuseSpec == StatsInit /\ [][ReuseNext]_vars

\* The dump had sent a fragment with MORE, so that a cursor was saved, when
\* its datapath was deleted and the index given to a new datapath.
Reused == cb.fresh >= 1 /\ cb.frags[cb.fresh].more

\* C38: every fragment of a resumed stats dump is generated from the
\* datapath instance on which the dump was initialised: if that datapath
\* is destroyed between two polls, even when a new datapath is then
\* created under the same index, the dump ends with an error instead of
\* applying the saved cursor to a different datapath.
C38_SameInstance ==
    Reused =>
      /\ Len(cb.frags) = cb.fresh
      /\ cb.pc # "dumpit" => cb.ret < 0

\* What the code keeps: a poll that finds no datapath under the index ends
\* the dump with -ENOENT and sends nothing.
C38_ErrorWhileIndexFree ==
    [][(cb.pc = "dumpit" /\ cb.args0 = 1 /\ ~dps[0] /\ cb'.pc # "dumpit")
          => (cb'.ret = -ENOENT /\ cb'.frags = cb.frags)]_vars

\* A FLOW dump went on in the tables of the new datapath at the saved
\* position: the first flow of its first table is in no fragment.
C38_FlowCursorOnNewDatapath ==
    /\ Reused /\ cb.rq.type = "FLOW" /\ cb.pc = "closed" /\ cb.ret = 0
    /\ cb.tables[1] # << >> /\ Len(cb.frags) > cb.fresh
    /\ \A k \in (cb.fresh + 1) .. Len(cb.frags) :
         \A j \in DOMAIN cb.frags[k].body :
           cb.frags[k].body[j] # [table_id |-> 0, pos |-> 1]

\* A PORT dump went on with the local port of the new datapath.
C38_PortCursorOnNewDatapath ==
    /\ Reused /\ AllPortsDump /\ Len(cb.frags) > cb.fresh
    /\ cb.frags[cb.fresh + 1].body = << LocalDev(0) >>

\* fwd_save_skb has stored the frame under a buffer id (fwd.buffered) in
\* a dp_output_control that has returned.
Saved == Constructed /\ fwd.buffered

\* A PACKET_IN carrying the buffer id of the frame has been sent.
Announced == \E k \in DOMAIN fwd.pin : fwd.pin[k].buffered

\* C39: every packet that dp_output_control saves in the packet store
\* under a buffer id is announced to the controller by a PACKET_IN
\* carrying that id: when the PACKET_IN cannot be constructed or sent, no
\* packet is left stored under a buffer id that no PACKET_IN carried.
C39_SavedIsAnnounced == Saved => Announced

\* What the code keeps: a saved packet is announced when
\* alloc_openflow_skb has built the message, and a PACKET_IN carries a
\* buffer id only for a packet that was saved.
C39_AnnouncedWhenBuilt ==
    /\ (Saved /\ fwd.alloc = "ok") => Announced
    /\ Announced => Saved

\* genlmsg_new had no memory for the PACKET_IN of a saved packet:
\* dp_output_control returned -ENOMEM and the packet stays in the store.
C39_SavedNoMemory ==
    /\ Saved /\ fwd.alloc = "nomem" /\ fwd.ret = -ENOMEM /\ fwd.pin = << >>
    /\ fwd.len = 64

\* The PACKET_IN of a saved packet was too large to be built.
C39_SavedTooLarge ==
    /\ Saved /\ fwd.alloc = "too_large" /\ fwd.ret = -ENOMEM
    /\ fwd.pin = << >>

\* No FLOW dump sends as many as MaxFrags fragments, so that cb.frags holds
\* every fragment of a FLOW dump.
FlowFragsKept == cb.rq.type = "FLOW" => Len(cb.frags) < MaxFrags

====
